---- MODULE Spec2Model ----
(***************************************************************************)
(* AEGIS side-channel simulators: the cache (Flush+Reload), timing         *)
(* (early-exit compare) and Hamming-weight power models, the cache key     *)
(* recovery, and the live sessions that drive them tick by tick.           *)
(*                                                                         *)
(* Measurements are floats in the source.  Cycle counts and milliseconds   *)
(* are modelled as integers, power in tenths of a unit, and a confidence   *)
(* counts[k] / len as the pair <<counts[k], len>>.                         *)
(***************************************************************************)
EXTENDS Integers, Sequences, FiniteSets, TLC

VARIABLES
    app,              \* which program or harness this run is
    call,             \* the last call made on a simulator: its name and arguments
    ret,              \* << >> while the call has not returned, then <<its value>>
    ncalls,           \* how many calls the harness has made on the simulator object
    secret_key,       \* LiveSimulation.secret_key / the secret_key argument
    monitored_index,  \* LiveSimulation.monitored_index
    noise_std,        \* CacheTimeSimulator.noise_std
    estimate,         \* << >>, or <<e>> with e what recover_key returned last:
                      \* rec_key as e.guess, conf as e.confidence = <<count, len>>
    secret_pwd,       \* LiveTimingApp.secret_pwd / the secret argument
    jitter_std,       \* TimingSimulator.jitter_std
    previous_value,   \* HammingPowerSimulator.previous_value
    last_arg,         \* history: the argument of the latest calculate_power call, 0 if none
    since_reset,      \* history: the same, but 0 again once simulate_sequence has reset
    pc,               \* where the session's __main__ is: "constructed", "show"
                      \* (inside plt.show()), "saving" (inside run's save_data),
                      \* "done", "handler" (inside the except clause), "exit"
                      \* or "killed"
    clock,            \* the latest reading of time.time()
    start_time,       \* << >> for None, else <<the reading of the first update>>
    is_running,       \* the session's is_running flag
    ani,              \* "None", or the state of ani.event_source
    fig_open,         \* whether the figure's window is open
    rng,              \* the random stream: its seed and how many samples it has served
    ticks,            \* history: how many times update has been called
    save_calls,       \* history: how many times save_data has been called
    files,            \* << >>, or <<the arrays np.save last wrote to data/>>
    all_plaintexts,   \* LiveSimulation.all_plaintexts (a list of arrays)
    all_timings,      \* LiveSimulation.all_timings (a list of arrays),
                      \* LiveTimingApp.all_timings (a flat list)
    all_counts,       \* LiveTimingApp.all_counts
    all_power,        \* LivePowerApp.all_power
    all_weights,      \* LivePowerApp.all_weights
    line_plot,        \* the data of LiveSimulation.line_plot
    line_power,       \* the data of LivePowerApp.line_power
    scat_corr,        \* the offsets and colour array of LivePowerApp.scat_corr
    scat,             \* the offsets and colour array of LiveTimingApp.scat
    title,            \* what the figure's title was last set from
    main_pc,          \* where main() of aegis is: "start", "start_sim",
                      \* "start_server", "prompt", "input" (in the loop, waiting
                      \* in input()), "stopping" (in the 'exit' branch), "handler"
                      \* (in the except clause), "final", "returned" or "raised"
    stop_event,       \* << >> before Event() is made, then <<whether it is set>>
    sim_thread,       \* the simulation thread: its state and the batches it has made
    server_thread,    \* the frontend thread: its state and the port attempt it is at
    stdout,           \* the lines written to standard output, each a tuple of words
    lines_read        \* how many lines input() has returned

unitVars == <<call, ret, ncalls>>
cacheVars == <<secret_key, monitored_index, noise_std, estimate>>
timingVars == <<secret_pwd, jitter_std>>
powerVars == <<previous_value, last_arg, since_reset>>

lifeVars == <<pc, clock, start_time, is_running, ani, fig_open, ticks, save_calls, files>>
dataVars == <<rng, all_plaintexts, all_timings, all_counts, all_power, all_weights>>
viewVars == <<line_plot, line_power, scat_corr, scat, title>>
sessionVars == <<lifeVars, dataVars, viewVars>>

aegisVars == <<main_pc, stop_event, sim_thread, server_thread, stdout, lines_read>>

vars == <<app, unitVars, cacheVars, timingVars, powerVars, sessionVars, aegisVars>>

None == "None"

(***************************************************************************)
(* Python and NumPy primitives.                                            *)
(***************************************************************************)

\* a ^ b on non-negative integers
RECURSIVE Xor(_, _)
Xor(a, b) ==
    IF a = 0 THEN b
    ELSE IF b = 0 THEN a
    ELSE (((a % 2) + (b % 2)) % 2) + (2 * Xor(a \div 2, b \div 2))

\* max(0, x)
Max0Unclamped(x) == x

Max0(x) == IF x < 0 THEN 0 ELSE x

\* arr[mask]: the elements of arr at the positions where mask is true, in order
MaskSelect(arr, mask) ==
    LET idx == SelectSeq([i \in 1..Len(arr) |-> i], LAMBDA i : mask[i])
    IN  [j \in 1..Len(idx) |-> arr[idx[j]]]

\* np.bincount(x, minlength): how often each value 0..minlength-1 occurs in x
BinCount(x, minlength) ==
    [k \in 0..(minlength - 1) |-> Cardinality({j \in 1..Len(x) : x[j] = k})]

\* np.argmax(counts): the first index holding the largest value
ArgMaxLast(counts) ==
    LET vals == {counts[k] : k \in DOMAIN counts}
        top == CHOOSE v \in vals : \A w \in vals : w <= v
    IN  CHOOSE k \in DOMAIN counts :
            counts[k] = top /\ \A j \in DOMAIN counts : j > k => counts[j] # top

ArgMax(counts) ==
    LET vals == {counts[k] : k \in DOMAIN counts}
        top == CHOOSE v \in vals : \A w \in vals : w <= v
    IN  CHOOSE k \in DOMAIN counts :
            counts[k] = top /\ \A j \in DOMAIN counts : j < k => counts[j] # top

(***************************************************************************)
(* The random draws.  np.random is a stream fixed by its seed: the model   *)
(* draws the seed, and RandInt and RandNormal give the stream's next n     *)
(* values after `used` earlier draws.  A Gaussian draw of standard         *)
(* deviation std is std times a standard draw; ZTable holds the standard   *)
(* draws the model takes, far tails included.                              *)
(***************************************************************************)
ZTable == <<0, 1, -1, 2, -20, -40>>

\* the standard draws of a stream that stays within two deviations
ZCalm == <<0, 1, -1, 2>>

Seeds ==
    {[start |-> s, stride |-> d, z |-> z, tails |-> t] :
        s \in {0, 5, 200}, d \in {1, 2}, z \in {0, 3}, t \in BOOLEAN}

\* np.random.randint(0, high, n)
RandInt(seed, used, high, n) ==
    [i \in 1..n |-> (seed.start + (seed.stride * (used + i - 1))) % high]

\* np.random.normal(0, std, n)
RandNormal(seed, used, std, n) ==
    LET table == IF seed.tails THEN ZTable ELSE ZCalm
    IN  [i \in 1..n |-> std * table[((seed.z + used + i - 1) % Len(table)) + 1]]

(***************************************************************************)
(* sims/cache_sim.py                                                       *)
(***************************************************************************)
HitCycles == 45
MissCycles == 180
Threshold == 100

\* CacheTimeSimulator.simulate_batch, steps 2 to 6, on the drawn plaintexts and noise
SimulateBatchWrongMask(plaintexts, noise, secret, monitored) ==
    [i \in 1..Len(plaintexts) |->
        Max0((IF plaintexts[i] = monitored THEN HitCycles ELSE MissCycles) + noise[i])]

SimulateBatch(plaintexts, noise, secret, monitored) ==
    LET accessed_indices == [i \in 1..Len(plaintexts) |-> Xor(plaintexts[i], secret)]
        hits_mask == [i \in 1..Len(plaintexts) |-> accessed_indices[i] = monitored]
        timings == [i \in 1..Len(plaintexts) |->
                        IF hits_mask[i] THEN HitCycles ELSE MissCycles]
    IN  [i \in 1..Len(plaintexts) |-> Max0(timings[i] + noise[i])]

\* CacheAttacker.recover_key
RecoverKeyNoXor(plaintexts, timings, monitored, threshold) ==
    LET hit_mask == [i \in 1..Len(timings) |-> timings[i] < threshold]
        fast_plaintexts == MaskSelect(plaintexts, hit_mask)
    IN  IF Len(fast_plaintexts) = 0
        THEN [guess |-> -1, confidence |-> <<0, 1>>]
        ELSE LET counts == BinCount(fast_plaintexts, 256)
                 likely_key == ArgMax(counts)
             IN  [guess |-> likely_key,
                  confidence |-> <<counts[likely_key], Len(fast_plaintexts)>>]

RecoverKeyNoSentinel(plaintexts, timings, monitored, threshold) ==
    LET hit_mask == [i \in 1..Len(timings) |-> timings[i] < threshold]
        fast_plaintexts == MaskSelect(plaintexts, hit_mask)
        key_guesses == [j \in 1..Len(fast_plaintexts) |->
                            Xor(fast_plaintexts[j], monitored)]
        counts == BinCount(key_guesses, 256)
        likely_key == ArgMax(counts)
    IN  [guess |-> likely_key,
         confidence |-> <<counts[likely_key], Len(key_guesses)>>]

\* recover_key carrying the votes of the estimate before it into its result
RecoverKeyIncremental(plaintexts, timings, monitored, threshold) ==
    LET hit_mask == [i \in 1..Len(timings) |-> timings[i] < threshold]
        fast_plaintexts == MaskSelect(plaintexts, hit_mask)
        key_guesses == [j \in 1..Len(fast_plaintexts) |->
                           Xor(fast_plaintexts[j], monitored)]
        counts == BinCount(key_guesses, 256)
        likely_key == ArgMax(counts)
    IN  IF Len(fast_plaintexts) = 0
        THEN [guess |-> -1, confidence |-> <<0, 1>>]
        ELSE IF estimate # << >> /\ estimate[1].guess = likely_key
        THEN [guess |-> likely_key,
              confidence |-> <<counts[likely_key] + estimate[1].confidence[1],
                               Len(key_guesses) + estimate[1].confidence[2]>>]
        ELSE [guess |-> likely_key,
              confidence |-> <<counts[likely_key], Len(key_guesses)>>]

RecoverKey(plaintexts, timings, monitored, threshold) ==
    LET hit_mask == [i \in 1..Len(timings) |-> timings[i] < threshold]
        fast_plaintexts == MaskSelect(plaintexts, hit_mask)
    IN  IF Len(fast_plaintexts) = 0
        THEN [guess |-> -1, confidence |-> <<0, 1>>]
        ELSE LET key_guesses == [j \in 1..Len(fast_plaintexts) |->
                                    Xor(fast_plaintexts[j], monitored)]
                 counts == BinCount(key_guesses, 256)
                 likely_key == ArgMax(counts)
             IN  [guess |-> likely_key,
                  confidence |-> <<counts[likely_key], Len(key_guesses)>>]

(***************************************************************************)
(* cache_sim.py (the batch demo)                                           *)
(***************************************************************************)

\* CacheTimeSimulator.calculate_timing on one drawn noise value
CalculateTiming(sbox_index, monitored, noise) ==
    LET base_time == IF sbox_index = monitored THEN HitCycles ELSE MissCycles
    IN  Max0(base_time + noise)

\* CacheTimeSimulator.simulate_attack on the drawn plaintexts and noise
SimulateAttack(plaintexts, noise, secret, monitored) ==
    LET sbox_index == [i \in 1..Len(plaintexts) |-> Xor(plaintexts[i], secret)]
    IN  [traces |-> [i \in 1..Len(plaintexts) |->
                        <<CalculateTiming(sbox_index[i], monitored, noise[i])>>],
         labels |-> sbox_index]

(***************************************************************************)
(* sims/timing_sim.py.  A string is a sequence of one-character strings.   *)
(***************************************************************************)
BaseTime == 100
CharDelay == 20

Min(a, b) == IF a < b THEN a ELSE b

\* the for loop of TimingSimulator.vulnerable_compare, from index i (1-based) on
RECURSIVE CompareLoop(_, _, _, _)
CompareLoop(secret, user_input, i, execution_time) ==
    IF i > Min(Len(secret), Len(user_input)) THEN execution_time
    ELSE IF secret[i] # user_input[i] THEN execution_time + CharDelay
    ELSE CompareLoop(secret, user_input, i + 1, execution_time + CharDelay)

\* TimingSimulator.vulnerable_compare on one drawn noise value
VulnerableCompareWholeSecret(secret, user_input, noise) ==
    LET t == CompareLoop(secret, user_input, 1, BaseTime)
    IN  Max0(t + noise
               + (IF Len(user_input) < Len(secret)
                        /\ t = BaseTime + (CharDelay * Len(user_input))
                  THEN CharDelay ELSE 0))

VulnerableCompare(secret, user_input, noise) ==
    Max0(CompareLoop(secret, user_input, 1, BaseTime) + noise)

\* the label loop of TimingSimulator.generate_batch, from index i (1-based) on
RECURSIVE MatchCountLoop(_, _, _, _)
MatchCountLoop(secret_pwd_, guess, i, match_count) ==
    IF i > Min(Len(secret_pwd_), Len(guess)) THEN match_count
    ELSE IF secret_pwd_[i] = guess[i]
         THEN MatchCountLoop(secret_pwd_, guess, i + 1, match_count + 1)
         ELSE match_count

Alphabet == <<"a", "b", "c", "d", "e", "f", "g", "h", "i", "j", "k", "l", "m",
              "n", "o", "p", "q", "r", "s", "t", "u", "v", "w", "x", "y", "z">>

\* the draws of Python's random module for guess number k of a run: the coin
\* random.random() < 0.5, random.randint(0, len) and the random.choices letters
PyRandom(seed, k, len) ==
    [junk |-> (seed.start + k) % 2 = 0,
     match_len |-> (seed.start + (seed.stride * k)) % (len + 1),
     letters |-> [j \in 1..len |->
                    Alphabet[((seed.start + (3 * k) + (seed.stride * j)) % 26) + 1]]]

\* the guess generate_batch builds from one sample's draws
Guess(secret_pwd_, draw) ==
    IF draw.junk THEN draw.letters
    ELSE SubSeq(secret_pwd_, 1, draw.match_len)
            \o SubSeq(draw.letters, 1, Len(secret_pwd_) - draw.match_len)

\* TimingSimulator.generate_batch after `used` earlier guesses of the run
TimingGenerateBatch(seed, used, batch_size, secret_pwd_, jitter) ==
    LET guess == [k \in 1..batch_size |->
                    Guess(secret_pwd_, PyRandom(seed, used + k, Len(secret_pwd_)))]
        noise == RandNormal(seed, used, jitter, batch_size)
    IN  [inputs |-> guess,
         timings |-> [k \in 1..batch_size |->
                        VulnerableCompare(secret_pwd_, guess[k], noise[k])],
         correct_counts |-> [k \in 1..batch_size |->
                        MatchCountLoop(secret_pwd_, guess[k], 1, 0)]]

(***************************************************************************)
(* sims/hamming_power_sim.py and hamming_power_sim.py.  Power is in tenths *)
(* of a unit: base_power 1.0, transition_power 0.5, leakage_power 0.1.     *)
(***************************************************************************)
BitWidth == 8
BasePower == 10
TransitionPower == 5
LeakagePower == 1

\* the binary digits of a non-negative integer, most significant first
RECURSIVE BinDigits(_)
BinDigits(v) ==
    IF v < 2 THEN <<IF v = 1 THEN "1" ELSE "0">>
    ELSE BinDigits(v \div 2) \o <<IF v % 2 = 1 THEN "1" ELSE "0">>

\* bin(value), such as '0b101' or '-0b101'
Bin(value) ==
    IF value < 0 THEN <<"-", "0", "b">> \o BinDigits(0 - value)
    ELSE <<"0", "b">> \o BinDigits(value)

\* str.count of a one-character string
Count(str, ch) == Cardinality({i \in 1..Len(str) : str[i] = ch})

\* HammingPowerSimulator.hamming_weight (both files)
HammingWeightOfZeros(value) == Count(Bin(value), "0")

HammingWeight(value) == Count(Bin(value), "1")

\* HammingPowerSimulator.hamming_distance of hamming_power_sim.py
HammingDistanceOfWeights(val1, val2) ==
    IF HammingWeight(val1) >= HammingWeight(val2)
    THEN HammingWeight(val1) - HammingWeight(val2)
    ELSE HammingWeight(val2) - HammingWeight(val1)

HammingDistance(val1, val2) == HammingWeight(Xor(val1, val2))

\* HammingPowerSimulator.hamming_distance of sims/hamming_power_sim.py
LiveHammingDistance(val1, val2) == Count(Bin(Xor(val1, val2)), "1")

\* HammingPowerSimulator.calculate_power of sims/hamming_power_sim.py: the power it
\* returns and the previous_value it leaves, from the previous_value it finds
LiveCalculatePowerStale(stored, current_value) ==
    [power |-> BasePower + (LeakagePower * HammingWeight(current_value))
                    + (TransitionPower * LiveHammingDistance(current_value, stored)),
     previous_value |-> stored]

LiveCalculatePower(stored, current_value) ==
    LET transitions == LiveHammingDistance(current_value, stored)
        active_bits == HammingWeight(current_value)
        power == BasePower + (LeakagePower * active_bits)
                    + (TransitionPower * transitions)
    IN  [power |-> power, previous_value |-> current_value]

\* HammingPowerSimulator.calculate_power of hamming_power_sim.py; previous is
\* << >> for the default None, or <<p>>
CalculatePowerNoLeakage(stored, current_value, previous) ==
    LET previous_value_ == IF previous = << >> THEN stored ELSE previous[1]
    IN  [power |-> BasePower
                     + (TransitionPower * HammingDistance(current_value, previous_value_)),
         previous_value |-> current_value]

\* calculate_power leaving the stored value alone when previous_value is given
CalculatePowerKeepsStored(stored, current_value, previous) ==
    LET previous_value_ == IF previous = << >> THEN stored ELSE previous[1]
        transitions == HammingDistance(current_value, previous_value_)
        active_bits == HammingWeight(current_value)
        power == BasePower + (LeakagePower * active_bits)
                    + (TransitionPower * transitions)
    IN  [power |-> power,
         previous_value |-> IF previous = << >> THEN current_value ELSE stored]

CalculatePower(stored, current_value, previous) ==
    LET previous_value_ == IF previous = << >> THEN stored ELSE previous[1]
        transitions == HammingDistance(current_value, previous_value_)
        active_bits == HammingWeight(current_value)
        power == BasePower + (LeakagePower * active_bits)
                    + (TransitionPower * transitions)
    IN  [power |-> power, previous_value |-> current_value]

\* the loop of simulate_sequence from element i on: the trace so far and the
\* stored previous_value go in, the finished trace and the stored value come out
RECURSIVE SequenceLoop(_, _, _, _)
SequenceLoop(data_sequence, i, stored, power_trace) ==
    IF i > Len(data_sequence)
    THEN [power_trace |-> power_trace, previous_value |-> stored]
    ELSE LET r == CalculatePower(stored, data_sequence[i], << >>)
         IN  SequenceLoop(data_sequence, i + 1, r.previous_value,
                          [power_trace EXCEPT ![i] = r.power])

\* HammingPowerSimulator.simulate_sequence
SimulateSequenceNoReset(stored, data_sequence, reset) ==
    SequenceLoop(data_sequence, 1, stored, [i \in 1..Len(data_sequence) |-> 0])

SimulateSequence(stored, data_sequence, reset) ==
    LET start == IF reset THEN 0 ELSE stored
        power_trace == [i \in 1..Len(data_sequence) |-> 0]
    IN  SequenceLoop(data_sequence, 1, start, power_trace)

\* the loop of generate_batch (sims/hamming_power_sim.py) from sample i on
RECURSIVE BatchLoop(_, _, _, _)
BatchLoop(vals, i, stored, acc) ==
    IF i > Len(vals)
    THEN [data_seq |-> acc.data_seq, power_seq |-> acc.power_seq,
          weight_seq |-> acc.weight_seq, previous_value |-> stored]
    ELSE LET r == LiveCalculatePower(stored, vals[i])
         IN  BatchLoop(vals, i + 1, r.previous_value,
                       [data_seq |-> Append(acc.data_seq, vals[i]),
                        power_seq |-> Append(acc.power_seq, r.power),
                        weight_seq |-> Append(acc.weight_seq, HammingWeight(vals[i]))])

\* 1 << n
RECURSIVE ShiftLeft1(_)
ShiftLeft1(n) == IF n = 0 THEN 1 ELSE 2 * ShiftLeft1(n - 1)

\* generate_batch starting every batch from previous_value = 0
PowerGenerateBatchResetting(seed, used, stored, batch_size) ==
    LET max_val == ShiftLeft1(BitWidth) - 1
        vals == RandInt(seed, used, max_val + 1, batch_size)
    IN  BatchLoop(vals, 1, 0,
                  [data_seq |-> << >>, power_seq |-> << >>, weight_seq |-> << >>])

\* HammingPowerSimulator.generate_batch after `used` earlier draws of the run
PowerGenerateBatch(seed, used, stored, batch_size) ==
    LET max_val == ShiftLeft1(BitWidth) - 1
        vals == RandInt(seed, used, max_val + 1, batch_size)
    IN  BatchLoop(vals, 1, stored,
                  [data_seq |-> << >>, power_seq |-> << >>, weight_seq |-> << >>])

(***************************************************************************)
(* The cache harness: calls of the two CacheTimeSimulator classes and of   *)
(* CacheAttacker.recover_key with drawn arguments.                         *)
(***************************************************************************)
MaxLen == 3

Byte == 0..255
Keys == {90, 255}
Indices == {94, 0}
NoiseStds == {0, 3, 5}
SampleSizes == {0, 1, 2, 50, 500, 600}
GivenPlaintexts == {4, 5, 164}
GivenTimings == {45, 99, 100}

\* the variables a run does not use
NoUnit == call = [op |-> None] /\ ret = << >> /\ ncalls = 0
NoCache == secret_key = 0 /\ monitored_index = 0 /\ noise_std = 0 /\ estimate = << >>
NoTiming == secret_pwd = << >> /\ jitter_std = 0
NoPower == previous_value = 0 /\ last_arg = 0 /\ since_reset = 0
NoData ==
    /\ all_plaintexts = << >>
    /\ all_timings = << >>
    /\ all_counts = << >>
    /\ all_power = << >>
    /\ all_weights = << >>
NoViews ==
    /\ line_plot = [xdata |-> << >>, ydata |-> << >>]
    /\ line_power = [xdata |-> << >>, ydata |-> << >>]
    /\ scat_corr = [offsets |-> << >>, array |-> << >>]
    /\ scat = [offsets |-> << >>, array |-> << >>]
    /\ title = << >>
NoAegis ==
    /\ main_pc = None
    /\ stop_event = << >>
    /\ sim_thread = [state |-> None, batches |-> 0]
    /\ server_thread = [state |-> None, attempt |-> 0]
    /\ stdout = << >>
    /\ lines_read = 0
NoSession ==
    /\ pc = None
    /\ clock = 0
    /\ start_time = << >>
    /\ is_running = FALSE
    /\ ani = None
    /\ fig_open = FALSE
    /\ ticks = 0
    /\ save_calls = 0
    /\ files = << >>
    /\ rng = [seed |-> None, used |-> 0]
    /\ NoData
    /\ NoViews

\* the plaintext arrays drawn for num_samples samples: one sample draws any byte,
\* more draw a stream
PlaintextDraws(n) ==
    IF n = 1 THEN {<<p>> : p \in Byte}
    ELSE {RandInt(seed, 0, 256, n) : seed \in Seeds}

NoiseDraws(std, n) == {RandNormal(seed, 0, std, n) : seed \in Seeds}

SeqsUpTo(S, n) == UNION {[1..k -> S] : k \in 0..n}

InitCacheUnit ==
    /\ NoAegis
    /\ app = "cache_unit"
    /\ secret_key \in Keys
    /\ monitored_index \in Indices
    /\ noise_std \in NoiseStds
    /\ \/ \E n \in SampleSizes :
            \E plaintexts \in PlaintextDraws(n), noise \in NoiseDraws(noise_std, n) :
                call = [op |-> "simulate_batch", num_samples |-> n,
                        plaintexts |-> plaintexts, noise |-> noise]
       \/ \E n \in SampleSizes \ {500, 600} :
            \E plaintexts \in PlaintextDraws(n), noise \in NoiseDraws(noise_std, n) :
                call = [op |-> "simulate_attack", num_samples |-> n,
                        plaintexts |-> plaintexts, noise |-> noise]
       \/ \E sbox_index \in Byte, noise \in NoiseDraws(noise_std, 1) :
                call = [op |-> "calculate_timing", sbox_index |-> sbox_index,
                        noise |-> noise[1]]
       \/ \E n \in 0..MaxLen :
            \E plaintexts \in [1..n -> GivenPlaintexts], timings \in [1..n -> GivenTimings] :
                call = [op |-> "recover_key", plaintexts |-> plaintexts,
                        timings |-> timings]
    /\ ret = << >>
    /\ ncalls = 0
    /\ estimate = << >>
    /\ NoTiming
    /\ NoPower
    /\ NoSession

\* sims/cache_sim.py: sim.simulate_batch(num_samples, secret_key, monitored_index)
UnitSimulateBatch ==
    /\ app \in {"cache_unit", "cache_sweep"}
    /\ call.op = "simulate_batch"
    /\ ret = << >>
    /\ ret' = <<[plaintexts |-> call.plaintexts,
                 timings |-> SimulateBatch(call.plaintexts, call.noise, secret_key,
                                           monitored_index)]>>
    /\ ncalls' = ncalls + 1
    /\ UNCHANGED <<aegisVars, app, call, cacheVars, timingVars, powerVars, sessionVars>>

\* cache_sim.py: simulator.simulate_attack(num_samples, secret_key, monitored_index)
UnitSimulateAttack ==
    /\ app \in {"cache_unit", "cache_sweep"}
    /\ call.op = "simulate_attack"
    /\ ret = << >>
    /\ LET r == SimulateAttack(call.plaintexts, call.noise, secret_key, monitored_index)
       IN  ret' = <<[plaintexts |-> call.plaintexts, traces |-> r.traces,
                     labels |-> r.labels]>>
    /\ ncalls' = ncalls + 1
    /\ UNCHANGED <<aegisVars, app, call, cacheVars, timingVars, powerVars, sessionVars>>

\* cache_sim.py: simulator.calculate_timing(sbox_index, monitored_index)
UnitCalculateTiming ==
    /\ app = "cache_unit"
    /\ call.op = "calculate_timing"
    /\ ret = << >>
    /\ ret' = <<CalculateTiming(call.sbox_index, monitored_index, call.noise)>>
    /\ ncalls' = ncalls + 1
    /\ UNCHANGED <<aegisVars, app, call, cacheVars, timingVars, powerVars, sessionVars>>

\* CacheAttacker.recover_key(plaintexts, timings, monitored_index) on the batch
\* simulate_batch returned
UnitAttack ==
    /\ app = "cache_unit"
    /\ call.op = "simulate_batch"
    /\ ret # << >>
    /\ estimate = << >>
    /\ estimate' = <<RecoverKey(ret[1].plaintexts, ret[1].timings, monitored_index,
                                Threshold)>>
    /\ UNCHANGED <<aegisVars, app, unitVars, secret_key, monitored_index, noise_std, timingVars, powerVars,
                   sessionVars>>

\* CacheAttacker.recover_key(plaintexts, timings, monitored_index) on given arrays
UnitRecoverKey ==
    /\ app = "cache_unit"
    /\ call.op = "recover_key"
    /\ ret = << >>
    /\ ret' = <<RecoverKey(call.plaintexts, call.timings, monitored_index, Threshold)>>
    /\ ncalls' = ncalls + 1
    /\ UNCHANGED <<aegisVars, app, call, cacheVars, timingVars, powerVars, sessionVars>>

\* CacheAttacker.recover_key called a second time on the same arrays
UnitRecoverKeyAgain ==
    /\ app = "cache_unit"
    /\ call.op = "recover_key"
    /\ Len(ret) = 1
    /\ ret' = Append(ret, RecoverKey(call.plaintexts, call.timings, monitored_index,
                                     Threshold))
    /\ ncalls' = ncalls + 1
    /\ UNCHANGED <<aegisVars, app, call, cacheVars, timingVars, powerVars, sessionVars>>

NextCacheUnit ==
    \/ UnitSimulateBatch
    \/ UnitSimulateAttack
    \/ UnitCalculateTiming
    \/ UnitAttack
    \/ UnitRecoverKey
    \/ UnitRecoverKeyAgain

SpecCacheUnit == InitCacheUnit /\ [][NextCacheUnit]_vars

(***************************************************************************)
(* Claims about the cache simulators and the key recovery.                 *)
(***************************************************************************)

\* the noise-free latency the leakage model assigns to an input byte
NoiseFree(input, secret, monitored) ==
    IF Xor(input, secret) = monitored THEN HitCycles ELSE MissCycles

\* C1: with noise_std = 0 every measurement of simulate_batch, simulate_attack and
\* calculate_timing is exactly hit_cycles when (input XOR secret) == monitored_index
\* and exactly miss_cycles otherwise.
C1_NoiseFreeMeasurement ==
    (app = "cache_unit" /\ noise_std = 0 /\ ret # << >>) =>
        /\ call.op = "simulate_batch" =>
             /\ Len(ret[1].timings) = call.num_samples
             /\ \A i \in 1..call.num_samples :
                  ret[1].timings[i] =
                      NoiseFree(ret[1].plaintexts[i], secret_key, monitored_index)
        /\ call.op = "simulate_attack" =>
             /\ Len(ret[1].traces) = call.num_samples
             /\ \A i \in 1..call.num_samples :
                  ret[1].traces[i] =
                      <<NoiseFree(ret[1].plaintexts[i], secret_key, monitored_index)>>
        /\ call.op = "calculate_timing" =>
             ret[1] = (IF call.sbox_index = monitored_index
                       THEN HitCycles ELSE MissCycles)

\* a noise-free batch of 50 that holds a hit and a miss
C1_Witness ==
    /\ app = "cache_unit" /\ noise_std = 0 /\ ret # << >>
    /\ call.op = "simulate_batch" /\ call.num_samples = 50
    /\ \E i, j \in 1..50 :
         /\ Xor(ret[1].plaintexts[i], secret_key) = monitored_index
         /\ ret[1].timings[i] = HitCycles
         /\ Xor(ret[1].plaintexts[j], secret_key) # monitored_index
         /\ ret[1].timings[j] = MissCycles

\* the fast samples' key hypotheses: <<i, plaintexts[i] XOR monitored_index>> for
\* every sample i with timings[i] < threshold
FastGuesses(plaintexts, timings, monitored, threshold) ==
    {<<i, Xor(plaintexts[i], monitored)>> :
        i \in {j \in 1..Len(timings) : timings[j] < threshold}}

\* r is the majority vote of the fast samples, the lowest value winning a tie,
\* with the winner's share of the votes as its confidence
IsMajorityVote(r, plaintexts, timings, monitored, threshold) ==
    \A fast \in {FastGuesses(plaintexts, timings, monitored, threshold)} :
        /\ r.guess \in Byte
        /\ \A top \in {Cardinality({g \in fast : g[2] = r.guess})} :
             /\ \A k \in Byte : Cardinality({g \in fast : g[2] = k}) <= top
             /\ \A k \in Byte :
                  k < r.guess => Cardinality({g \in fast : g[2] = k}) < top
             /\ r.confidence = <<top, Cardinality(fast)>>

NumFast(timings, threshold) ==
    Cardinality({i \in 1..Len(timings) : timings[i] < threshold})

\* C2: when at least one sample is fast, recover_key returns the most frequent
\* value of (fast plaintext XOR monitored_index), the lowest value among equally
\* frequent ones, with confidence (votes for the guess) / (number of fast samples).
C2_MajorityVoteLowestTie ==
    /\ (app = "cache_unit" /\ call.op = "recover_key" /\ ret # << >>
            /\ NumFast(call.timings, Threshold) > 0) =>
          IsMajorityVote(ret[1], call.plaintexts, call.timings, monitored_index,
                         Threshold)
    /\ (app = "cache_unit" /\ call.op = "simulate_batch" /\ estimate # << >>
            /\ NumFast(ret[1].timings, Threshold) > 0) =>
          IsMajorityVote(estimate[1], ret[1].plaintexts, ret[1].timings,
                         monitored_index, Threshold)

\* the guess is the lower of two values that tie for the most votes, and some
\* sample of the call is slow
C2_Witness ==
    /\ app = "cache_unit" /\ call.op = "recover_key" /\ ret # << >>
    /\ ret[1].guess \in Byte
    /\ \E fast \in {FastGuesses(call.plaintexts, call.timings, monitored_index,
                                 Threshold)} :
           /\ \E k \in Byte :
                /\ k > ret[1].guess
                /\ Cardinality({g \in fast : g[2] = k})
                       = Cardinality({g \in fast : g[2] = ret[1].guess})
           /\ \E g \in fast : g[2] = ret[1].guess
           /\ Cardinality(fast) < Len(call.timings)

\* C3 as stated: recover_key on any noise-free batch of n >= 500 samples returns
\* the secret with confidence 1.0.
C3_AnyLargeBatchRecovers ==
    (app = "cache_unit" /\ call.op = "simulate_batch" /\ noise_std = 0
        /\ call.num_samples >= 500 /\ estimate # << >>) =>
        /\ estimate[1].guess = secret_key
        /\ estimate[1].confidence[1] = estimate[1].confidence[2]

\* C3 amended: recover_key on a noise-free batch of n >= 500 samples returns the
\* secret with confidence 1.0 when some input of the batch equals
\* secret XOR monitored_index, and (-1, 0.0) when none does.
C3_LargeBatchRecoversIffHit ==
    (app = "cache_unit" /\ call.op = "simulate_batch" /\ noise_std = 0
        /\ call.num_samples >= 500 /\ estimate # << >>) =>
        IF \E i \in 1..call.num_samples :
               ret[1].plaintexts[i] = Xor(secret_key, monitored_index)
        THEN /\ estimate[1].guess = secret_key
             /\ estimate[1].confidence[1] = estimate[1].confidence[2]
             /\ estimate[1].confidence[2] > 0
        ELSE estimate[1] = [guess |-> -1, confidence |-> <<0, 1>>]

\* a noise-free batch of 500 with a hit in it, and the secret recovered from it
C3_Witness ==
    /\ app = "cache_unit" /\ call.op = "simulate_batch" /\ noise_std = 0
    /\ call.num_samples = 500 /\ estimate # << >>
    /\ \E i \in 1..500 : ret[1].timings[i] = HitCycles
    /\ estimate[1].guess = secret_key

(***************************************************************************)
(* The timing harness: calls of TimingSimulator with drawn arguments.      *)
(***************************************************************************)
MaxGuessLen == 3

Admin == <<"a", "d", "m", "i", "n">>
Secrets == {Admin, <<"a", "d">>, << >>}
JitterStds == {0, 5}
Guesses ==
    SeqsUpTo({"a", "d", "x"}, MaxGuessLen)
        \cup {Admin, <<"x", "x", "x", "x", "x">>, <<"a", "d", "m", "i", "x">>,
              <<"a", "d", "x", "i", "n">>, <<"a", "d", "m", "i">>,
              <<"a", "d", "m", "i", "n", "x">>}
TimingBatchSizes == {0, 1, 2, 10}

InitTimingUnit ==
    /\ NoAegis
    /\ app = "timing_unit"
    /\ secret_pwd \in Secrets
    /\ jitter_std \in JitterStds
    /\ \/ \E user_input \in Guesses, z \in 1..Len(ZTable) :
                call = [op |-> "vulnerable_compare", user_input |-> user_input,
                        noise |-> jitter_std * ZTable[z]]
       \/ \E n \in TimingBatchSizes, seed \in Seeds :
                call = [op |-> "generate_batch", batch_size |-> n, seed |-> seed]
    /\ ret = << >>
    /\ ncalls = 0
    /\ NoCache
    /\ NoPower
    /\ NoSession

\* sim.vulnerable_compare(secret, user_input)
UnitVulnerableCompare ==
    /\ app = "timing_unit"
    /\ call.op = "vulnerable_compare"
    /\ ret = << >>
    /\ ret' = <<VulnerableCompare(secret_pwd, call.user_input, call.noise)>>
    /\ ncalls' = ncalls + 1
    /\ UNCHANGED <<aegisVars, app, call, cacheVars, timingVars, powerVars, sessionVars>>

\* sim.generate_batch(batch_size, secret_pwd)
UnitTimingGenerateBatch ==
    /\ app = "timing_unit"
    /\ call.op = "generate_batch"
    /\ ret = << >>
    /\ ret' = <<TimingGenerateBatch(call.seed, 0, call.batch_size, secret_pwd,
                                    jitter_std)>>
    /\ ncalls' = ncalls + 1
    /\ UNCHANGED <<aegisVars, app, call, cacheVars, timingVars, powerVars, sessionVars>>

NextTimingUnit ==
    \/ UnitVulnerableCompare
    \/ UnitTimingGenerateBatch

SpecTimingUnit == InitTimingUnit /\ [][NextTimingUnit]_vars

(***************************************************************************)
(* Claims about the timing simulator.                                      *)
(***************************************************************************)

\* the length of the longest common prefix of two strings
CommonPrefix(s, g) ==
    CHOOSE k \in 0..Min(Len(s), Len(g)) :
        /\ \A i \in 1..k : s[i] = g[i]
        /\ k < Min(Len(s), Len(g)) => s[k + 1] # g[k + 1]

\* how many character positions the loop of vulnerable_compare charged
ChargedPositions(secret, user_input) ==
    (CompareLoop(secret, user_input, 1, BaseTime) - BaseTime) \div CharDelay

\* C5: with jitter_std = 0, vulnerable_compare(secret, guess) returns
\* base_time + char_delay * (length of the matching prefix of secret and guess).
C5_TimeLinearInMatchedPrefix ==
    (app = "timing_unit" /\ call.op = "vulnerable_compare" /\ jitter_std = 0
        /\ ret # << >>) =>
        ret[1] = BaseTime + (CharDelay * CommonPrefix(secret_pwd, call.user_input))

\* C6: every label of generate_batch is the length of the longest common prefix of
\* secret and guess, and equals the number of positions vulnerable_compare charged
\* char_delay for on the same secret and guess.
C6_LabelIsChargedPositions ==
    (app = "timing_unit" /\ call.op = "generate_batch" /\ ret # << >>) =>
        \A k \in 1..call.batch_size :
            /\ ret[1].correct_counts[k] = CommonPrefix(secret_pwd, ret[1].inputs[k])
            /\ ret[1].correct_counts[k]
                  = ChargedPositions(secret_pwd, ret[1].inputs[k])

(***************************************************************************)
(* The power harness: a sequence of calls on one HammingPowerSimulator,    *)
(* of sims/hamming_power_sim.py ("power_sims") or of hamming_power_sim.py  *)
(* ("power_root").  last_arg is the argument of the latest calculate_power *)
(* call, since_reset the same unless simulate_sequence has reset the       *)
(* simulator after it (then 0).                                            *)
(***************************************************************************)
MaxCalls == 3
MaxSeqLen == 2

Words == {0, 255, 170, 15}
PowerBatchSizes == {0, 1, 5}
PowerSeeds == {seed \in Seeds : seed.z = 0}

InitPowerUnit ==
    /\ NoAegis
    /\ app \in {"power_sims", "power_root"}
    /\ NoUnit
    /\ NoCache
    /\ NoTiming
    /\ NoSession
    /\ previous_value = 0
    /\ last_arg = 0
    /\ since_reset = 0

\* sim.calculate_power(current_value)
UnitCalculatePower ==
    /\ app \in {"power_sims", "power_root"}
    /\ ncalls < MaxCalls
    /\ \E current_value \in Words :
        \E r \in {IF app = "power_sims"
                      THEN LiveCalculatePower(previous_value, current_value)
                      ELSE CalculatePower(previous_value, current_value, << >>)} :
            /\ call' = [op |-> "calculate_power", current_value |-> current_value]
            /\ ret' = <<r.power>>
            /\ previous_value' = r.previous_value
            /\ last_arg' = current_value
            /\ since_reset' = current_value
    /\ ncalls' = ncalls + 1
    /\ UNCHANGED <<aegisVars, app, cacheVars, timingVars, sessionVars>>

\* sim.calculate_power(current_value, previous_value)
UnitCalculatePowerExplicit ==
    /\ app = "power_root"
    /\ ncalls < MaxCalls
    /\ \E current_value \in Words, previous \in Words :
        \E r \in {CalculatePower(previous_value, current_value, <<previous>>)} :
            /\ call' = [op |-> "calculate_power_explicit",
                        current_value |-> current_value, previous |-> previous]
            /\ ret' = <<r.power>>
            /\ previous_value' = r.previous_value
            /\ last_arg' = current_value
            /\ since_reset' = current_value
    /\ ncalls' = ncalls + 1
    /\ UNCHANGED <<aegisVars, app, cacheVars, timingVars, sessionVars>>

\* sim.simulate_sequence(data_sequence, reset)
UnitSimulateSequence ==
    /\ app = "power_root"
    /\ ncalls < MaxCalls
    /\ \E data_sequence \in SeqsUpTo(Words, MaxSeqLen), reset \in BOOLEAN :
        \E r \in {SimulateSequence(previous_value, data_sequence, reset)} :
            /\ call' = [op |-> "simulate_sequence",
                        data_sequence |-> data_sequence, reset |-> reset]
            /\ ret' = <<r.power_trace>>
            /\ previous_value' = r.previous_value
            /\ last_arg' = IF data_sequence = << >> THEN last_arg
                           ELSE data_sequence[Len(data_sequence)]
            /\ since_reset' = IF data_sequence # << >>
                                  THEN data_sequence[Len(data_sequence)]
                              ELSE IF reset THEN 0 ELSE since_reset
    /\ ncalls' = ncalls + 1
    /\ UNCHANGED <<aegisVars, app, cacheVars, timingVars, sessionVars>>

\* sim.generate_batch(batch_size)
UnitPowerGenerateBatch ==
    /\ app = "power_sims"
    /\ ncalls < MaxCalls
    /\ \E batch_size \in PowerBatchSizes, seed \in PowerSeeds :
        \E r \in {PowerGenerateBatch(seed, 0, previous_value, batch_size)} :
            /\ call' = [op |-> "generate_batch", batch_size |-> batch_size,
                        seed |-> seed]
            /\ ret' = <<r>>
            /\ previous_value' = r.previous_value
            /\ last_arg' = IF batch_size = 0 THEN last_arg
                           ELSE r.data_seq[batch_size]
            /\ since_reset' = IF batch_size = 0 THEN since_reset
                              ELSE r.data_seq[batch_size]
    /\ ncalls' = ncalls + 1
    /\ UNCHANGED <<aegisVars, app, cacheVars, timingVars, sessionVars>>

NextPowerUnit ==
    \/ UnitCalculatePower
    \/ UnitCalculatePowerExplicit
    \/ UnitSimulateSequence
    \/ UnitPowerGenerateBatch

SpecPowerUnit == InitPowerUnit /\ [][NextPowerUnit]_vars

(***************************************************************************)
(* Claims about the power simulators.                                      *)
(***************************************************************************)

\* bit b of a word
Bit(value, b) == (value \div (2 ^ b)) % 2

\* the number of set bits
PopCount(value) == Cardinality({b \in 0..(BitWidth - 1) : Bit(value, b) = 1})

\* the number of differing bits
DifferingBits(v1, v2) ==
    Cardinality({b \in 0..(BitWidth - 1) : Bit(v1, b) # Bit(v2, b)})

\* base_power + transition_power * HD(previous, current) + leakage_power * HW(current)
PowerFormula(current, previous) ==
    BasePower + (TransitionPower * DifferingBits(previous, current))
              + (LeakagePower * PopCount(current))

\* the values a call hands to calculate_power(current_value), in order
Processed(c, r) ==
    CASE c.op = "calculate_power" -> <<c.current_value>>
      [] c.op = "simulate_sequence" -> c.data_sequence
      [] c.op = "generate_batch" -> r[1].data_seq
      [] OTHER -> << >>

\* the powers such a call computed, in the same order
Powers(c, r) ==
    CASE c.op = "calculate_power" -> r
      [] c.op = "simulate_sequence" -> r[1]
      [] c.op = "generate_batch" -> r[1].power_seq
      [] OTHER -> << >>

\* every calculate_power(current_value) call of the step, those simulate_sequence
\* and generate_batch make included, computes the formula against `before` for the first and against
\* the preceding argument for the others, and leaves previous_value = current_value
StepFollowsFormula(before) ==
    \A vals \in {Processed(call', ret')} :
        vals # << >> =>
            /\ \A i \in 1..Len(vals) :
                 Powers(call', ret')[i]
                    = PowerFormula(vals[i], IF i = 1 THEN before ELSE vals[i - 1])
            /\ previous_value' = vals[Len(vals)]

\* C7 as stated: calculate_power(current_value) returns the formula with
\* previous_value the argument of the immediately preceding calculate_power call
\* (0 if none), and sets previous_value to current_value.
C7_PreviousIsPrecedingArgument ==
    [][ncalls' = ncalls + 1 => StepFollowsFormula(last_arg)]_vars

\* C7 amended: previous_value is the argument of the immediately preceding
\* calculate_power call, or 0 if there was none or simulate_sequence has reset the
\* simulator since.
C7_PreviousIsPrecedingArgumentOrReset ==
    [][ncalls' = ncalls + 1 =>
         StepFollowsFormula(IF call'.op = "simulate_sequence" /\ call'.reset
                                THEN 0 ELSE since_reset)]_vars

\* a calculate_power call that followed another one and was charged transitions
\* against a non-zero preceding argument
C7_Witness ==
    /\ app \in {"power_sims", "power_root"}
    /\ ncalls >= 2
    /\ call.op = "calculate_power"
    /\ ret[1] # PowerFormula(call.current_value, 0)
    /\ previous_value = call.current_value

\* the last value the call handed to calculate_power, if any
LastProcessed(c) ==
    CASE c.op \in {"calculate_power", "calculate_power_explicit"} -> <<c.current_value>>
      [] c.op = "simulate_sequence" /\ c.data_sequence # << >> ->
            <<c.data_sequence[Len(c.data_sequence)]>>
      [] OTHER -> << >>

\* C8: simulate_sequence(values, reset) returns one power per value; element i > 0
\* is evaluated against values[i-1]; element 0 against 0 when reset is True, and
\* against the last value the preceding call processed when reset is False.
C8_SequenceChainsValues ==
    [][(ncalls' = ncalls + 1 /\ call'.op = "simulate_sequence") =>
         \A vals \in {call'.data_sequence} :
            /\ Len(ret'[1]) = Len(vals)
            /\ \A i \in 2..Len(vals) :
                 ret'[1][i] = PowerFormula(vals[i], vals[i - 1])
            /\ (vals # << >> /\ call'.reset) =>
                 ret'[1][1] = PowerFormula(vals[1], 0)
            /\ (vals # << >> /\ ~call'.reset /\ LastProcessed(call) # << >>) =>
                 ret'[1][1] = PowerFormula(vals[1], LastProcessed(call)[1])]_vars

\* a two-value sequence run without reset after an earlier call, its first value
\* charged transitions against what that call left
C8_Witness ==
    /\ app = "power_root"
    /\ ncalls >= 2
    /\ call.op = "simulate_sequence"
    /\ ~call.reset
    /\ Len(call.data_sequence) = 2
    /\ ret[1][1] # PowerFormula(call.data_sequence[1], 0)
    /\ ret[1][2] = PowerFormula(call.data_sequence[2], call.data_sequence[1])

(***************************************************************************)
(* The live sessions: __main__ of sims/cache_sim.py, sims/timing_sim.py    *)
(* and sims/hamming_power_sim.py.  run() starts the animation and blocks   *)
(* in plt.show(); the timer calls update(); the window closes, or update   *)
(* closes it once the duration has passed, and run() goes on to save_data. *)
(* time.time() is a clock that never runs backwards.                       *)
(***************************************************************************)
MaxCacheTicks == 3
MaxTimingTicks == 3
MaxPowerTicks == 41
MaxLateTicks == 1

Duration == 10
CacheBatchSize == 50
TimingBatchSize == 10
PowerBatchSize == 5
CacheWindow == 100
PowerWindow == 100
CorrWindow == 200
LiveSecretKey == 90
LiveMonitoredIndex == 94
LiveNoiseStd == 5
LiveJitterStd == 5

\* how far the clock moves between two calls of update, and between the two
\* readings the first call takes
Steps == {0, 5, 11}
Gaps == {0, 11}

Sessions == {"cache_session", "timing_session", "power_session"}

\* arr[start:] of Python: a negative start counts from the end
SliceHead(arr, start) ==
    SubSeq(arr, 1, Min(Len(arr), IF start < 0 THEN 0 - start ELSE Len(arr) - start))

Slice(arr, start) ==
    LET lo == IF start < 0 THEN Max0(Len(arr) + start) ELSE Min(start, Len(arr))
    IN  SubSeq(arr, lo + 1, Len(arr))

\* np.concatenate(arrays)
RECURSIVE Concatenate(_)
Concatenate(arrays) ==
    IF arrays = << >> THEN << >>
    ELSE Concatenate(SubSeq(arrays, 1, Len(arrays) - 1)) \o arrays[Len(arrays)]

\* range(n)
Range(n) == [i \in 1..n |-> i - 1]

\* np.c_[xs, ys]
Columns(xs, ys) == [i \in 1..Len(xs) |-> <<xs[i], ys[i]>>]

\* how many batches the session has generated
Batches ==
    CASE app = "cache_session" -> Len(all_plaintexts)
      [] app = "timing_session" -> Len(all_timings) \div TimingBatchSize
      [] app = "power_session" -> Len(all_power) \div PowerBatchSize
      [] OTHER -> 0

InitSession ==
    /\ NoAegis
    /\ app \in Sessions
    /\ NoUnit
    /\ IF app = "cache_session"
         THEN /\ secret_key = LiveSecretKey
              /\ monitored_index = LiveMonitoredIndex
              /\ noise_std = LiveNoiseStd
              /\ estimate = << >>
         ELSE NoCache
    /\ IF app = "timing_session"
         THEN secret_pwd = Admin /\ jitter_std = LiveJitterStd
         ELSE NoTiming
    /\ NoPower
    /\ pc = "constructed"
    /\ clock = 5
    /\ start_time = << >>
    /\ is_running = TRUE
    /\ ani = None
    /\ fig_open = TRUE
    /\ ticks = 0
    /\ save_calls = 0
    /\ files = << >>
    /\ \E seed \in Seeds :
        /\ seed.stride = 1
        /\ app = "power_session" => (seed.z = 0 /\ seed.tails)
        /\ rng = [seed |-> seed, used |-> 0]
    /\ NoData
    /\ NoViews

\* run() up to plt.show()
Run ==
    /\ app \in Sessions
    /\ pc = "constructed"
    /\ pc' = "show"
    /\ ani' = "running"
    /\ UNCHANGED <<aegisVars, app, unitVars, cacheVars, timingVars, powerVars, clock, start_time,
                   is_running, fig_open, ticks, save_calls, files, dataVars, viewVars>>

\* the readings of time.time() one call of update takes: [start_time, now, elapsed]
Readings ==
    {[start_time |-> IF start_time = << >> THEN clock + d1 ELSE start_time[1],
      now |-> clock + d1 + d2,
      elapsed |-> (clock + d1 + d2)
                     - (IF start_time = << >> THEN clock + d1 ELSE start_time[1])] :
        d1 \in Steps, d2 \in IF start_time = << >> THEN Gaps ELSE {0}}

\* if elapsed > self.duration
StopConditionWhileRunning(elapsed) == elapsed > Duration /\ is_running

StopConditionAtDuration(elapsed) == elapsed >= Duration

StopCondition(elapsed) == elapsed > Duration

\* the stop branch of update
StopBranch ==
    /\ ticks - Batches <= MaxLateTicks
    /\ IF is_running
         THEN /\ is_running' = FALSE
              /\ ani' = "stopped"
              /\ fig_open' = FALSE
         ELSE UNCHANGED <<is_running, ani, fig_open>>
    /\ UNCHANGED <<cacheVars, powerVars, dataVars, viewVars>>

\* LiveSimulation.update(frame) taking the clock readings t
CacheUpdateAt(t) ==
    /\ app = "cache_session"
    /\ pc = "show"
    /\ start_time' = <<t.start_time>>
    /\ clock' = t.now
    /\ IF StopCondition(t.elapsed)
         THEN StopBranch
         ELSE /\ Len(all_plaintexts) < MaxCacheTicks
              /\ \E pt_batch \in {RandInt(rng.seed, rng.used, 256, CacheBatchSize)} :
                 \E time_batch \in
                      {SimulateBatch(pt_batch,
                                     RandNormal(rng.seed, rng.used, noise_std,
                                                CacheBatchSize),
                                     secret_key, monitored_index)} :
                 \E flat_time \in {Concatenate(Append(all_timings, time_batch))} :
                    /\ rng' = [rng EXCEPT !.used = @ + CacheBatchSize]
                    /\ all_plaintexts' = Append(all_plaintexts, pt_batch)
                    /\ all_timings' = Append(all_timings, time_batch)
                    /\ \E r \in {RecoverKey(Concatenate(all_plaintexts'), flat_time,
                                            monitored_index, Threshold)} :
                        /\ estimate' = <<r>>
                        /\ title' = <<[elapsed |-> t.elapsed,
                                       status |-> IF 10 * r.confidence[1]
                                                      < 9 * r.confidence[2]
                                                  THEN "WORKING..." ELSE "CRACKED!",
                                       traces |-> Len(flat_time)]>>
                    /\ \E display_data \in {Slice(flat_time, 0 - CacheWindow)} :
                        line_plot' = [xdata |-> Range(Len(display_data)),
                                      ydata |-> display_data]
                    /\ UNCHANGED <<is_running, ani, fig_open, secret_key,
                                   monitored_index, noise_std, powerVars,
                                   all_counts, all_power, all_weights,
                                   line_power, scat_corr, scat>>
    /\ ticks' = ticks + 1
    /\ UNCHANGED <<aegisVars, app, unitVars, timingVars, pc, save_calls, files>>

CacheUpdate == \E t \in Readings : CacheUpdateAt(t)

\* LiveTimingApp.update(frame) assigning the batch to the history lists in place
\* of extending them
TimingUpdateAtOverwriting(t) ==
    /\ app = "timing_session"
    /\ pc = "show"
    /\ start_time' = <<t.start_time>>
    /\ clock' = t.now
    /\ IF StopCondition(t.elapsed)
         THEN StopBranch
         ELSE /\ ticks < MaxTimingTicks
              /\ \E b \in {TimingGenerateBatch(rng.seed, rng.used, TimingBatchSize,
                                               secret_pwd, jitter_std)} :
                    /\ rng' = [rng EXCEPT !.used = @ + TimingBatchSize]
                    /\ all_timings' = b.timings
                    /\ all_counts' = b.correct_counts
                    /\ scat' = [offsets |-> Columns(all_counts', all_timings'),
                                array |-> all_counts']
                    /\ title' = <<[samples |-> Len(all_timings'),
                                   elapsed |-> t.elapsed]>>
                    /\ UNCHANGED <<is_running, ani, fig_open, cacheVars, powerVars,
                                   all_plaintexts, all_power, all_weights,
                                   line_plot, line_power, scat_corr>>
    /\ ticks' = ticks + 1
    /\ UNCHANGED <<aegisVars, app, unitVars, timingVars, pc, save_calls, files>>

\* LiveTimingApp.update(frame) taking the clock readings t
TimingUpdateAt(t) ==
    /\ app = "timing_session"
    /\ pc = "show"
    /\ start_time' = <<t.start_time>>
    /\ clock' = t.now
    /\ IF StopCondition(t.elapsed)
         THEN StopBranch
         ELSE /\ Len(all_timings) < MaxTimingTicks * TimingBatchSize
              /\ \E b \in {TimingGenerateBatch(rng.seed, rng.used, TimingBatchSize,
                                               secret_pwd, jitter_std)} :
                    /\ rng' = [rng EXCEPT !.used = @ + TimingBatchSize]
                    /\ all_timings' = all_timings \o b.timings
                    /\ all_counts' = all_counts \o b.correct_counts
                    /\ scat' = [offsets |-> Columns(all_counts', all_timings'),
                                array |-> all_counts']
                    /\ title' = <<[samples |-> Len(all_timings'),
                                   elapsed |-> t.elapsed]>>
                    /\ UNCHANGED <<is_running, ani, fig_open, cacheVars, powerVars,
                                   all_plaintexts, all_power, all_weights,
                                   line_plot, line_power, scat_corr>>
    /\ ticks' = ticks + 1
    /\ UNCHANGED <<aegisVars, app, unitVars, timingVars, pc, save_calls, files>>

TimingUpdate == \E t \in Readings : TimingUpdateAt(t)

\* LivePowerApp.update(_frame) taking the clock readings t
PowerUpdateAt(t) ==
    /\ app = "power_session"
    /\ pc = "show"
    /\ start_time' = <<t.start_time>>
    /\ clock' = t.now
    /\ IF StopCondition(t.elapsed)
         THEN StopBranch
         ELSE /\ Len(all_power) < MaxPowerTicks * PowerBatchSize
              /\ \E b \in {PowerGenerateBatch(rng.seed, rng.used, previous_value,
                                              PowerBatchSize)} :
                    /\ rng' = [rng EXCEPT !.used = @ + PowerBatchSize]
                    /\ previous_value' = b.previous_value
                    /\ last_arg' = b.data_seq[PowerBatchSize]
                    /\ since_reset' = b.data_seq[PowerBatchSize]
                    /\ all_power' = all_power \o b.power_seq
                    /\ all_weights' = all_weights \o b.weight_seq
                    /\ \E display_power \in {Slice(all_power', 0 - PowerWindow)} :
                        line_power' = [xdata |-> Range(Len(display_power)),
                                       ydata |-> display_power]
                    /\ \E corr_weights \in {Slice(all_weights', 0 - CorrWindow)},
                          corr_power \in {Slice(all_power', 0 - CorrWindow)} :
                        scat_corr' = [offsets |-> Columns(corr_weights, corr_power),
                                      array |-> corr_weights]
                    /\ title' = <<[elapsed |-> t.elapsed,
                                   samples |-> Len(all_power')]>>
                    /\ UNCHANGED <<is_running, ani, fig_open, cacheVars,
                                   all_plaintexts, all_timings, all_counts,
                                   line_plot, scat>>
    /\ ticks' = ticks + 1
    /\ UNCHANGED <<aegisVars, app, unitVars, timingVars, pc, save_calls, files>>

PowerUpdate == \E t \in Readings : PowerUpdateAt(t)

\* the user closes the window
CloseWindow ==
    /\ app \in Sessions
    /\ pc = "show"
    /\ fig_open
    /\ fig_open' = FALSE
    /\ UNCHANGED <<aegisVars, app, unitVars, cacheVars, timingVars, powerVars, pc, clock,
                   start_time, is_running, ani, ticks, save_calls, files, dataVars,
                   viewVars>>

\* what save_data leaves in data/
SaveData ==
    CASE app = "cache_session" ->
            IF all_timings # << >>
            THEN <<[live_traces |-> Concatenate(all_timings),
                    live_plaintexts |-> Concatenate(all_plaintexts)]>>
            ELSE files
      [] app = "timing_session" ->
            IF all_timings # << >>
            THEN <<[live_timing_traces |-> all_timings,
                    live_timing_labels |-> all_counts]>>
            ELSE files
      [] app = "power_session" ->
            IF all_power # << >>
            THEN <<[live_power_trace |-> all_power,
                    live_hamming_weights |-> all_weights]>>
            ELSE files

\* plt.show() returns once the window is closed, and run() calls save_data
ShowReturns ==
    /\ app \in Sessions
    /\ pc = "show"
    /\ ~fig_open
    /\ save_calls' = save_calls + 1
    /\ pc' = "saving"
    /\ UNCHANGED <<aegisVars, app, unitVars, cacheVars, timingVars, powerVars, clock, start_time,
                   is_running, ani, fig_open, ticks, files, dataVars, viewVars>>

\* that save_data writes its files and returns, and so does run()
RunReturns ==
    /\ app \in Sessions
    /\ pc = "saving"
    /\ files' = SaveData
    /\ pc' = "done"
    /\ UNCHANGED <<aegisVars, app, unitVars, cacheVars, timingVars, powerVars, clock, start_time,
                   is_running, ani, fig_open, ticks, save_calls, dataVars, viewVars>>

\* Ctrl-C inside run(), in plt.show() or in its save_data, which may or may not
\* have written its files: the handler of __main__ calls save_data
KeyboardInterrupt ==
    /\ app \in Sessions
    /\ pc \in {"show", "saving"}
    /\ files' \in (IF pc = "saving" THEN {files, SaveData} ELSE {files})
    /\ save_calls' = save_calls + 1
    /\ pc' = "handler"
    /\ UNCHANGED <<aegisVars, app, unitVars, cacheVars, timingVars, powerVars, clock, start_time,
                   is_running, ani, fig_open, ticks, dataVars, viewVars>>

\* the handler's save_data writes its files and returns; sys.exit(0)
HandlerReturns ==
    /\ app \in Sessions
    /\ pc = "handler"
    /\ files' = SaveData
    /\ pc' = "exit"
    /\ UNCHANGED <<aegisVars, app, unitVars, cacheVars, timingVars, powerVars, clock, start_time,
                   is_running, ani, fig_open, ticks, save_calls, dataVars, viewVars>>

\* Ctrl-C inside the handler: nothing catches it and the process ends
InterruptHandler ==
    /\ app \in Sessions
    /\ pc = "handler"
    /\ files' \in {files, SaveData}
    /\ pc' = "killed"
    /\ UNCHANGED <<aegisVars, app, unitVars, cacheVars, timingVars, powerVars, clock, start_time,
                   is_running, ani, fig_open, ticks, save_calls, dataVars, viewVars>>

NextSession ==
    \/ Run
    \/ CacheUpdate
    \/ TimingUpdate
    \/ PowerUpdate
    \/ CloseWindow
    \/ ShowReturns
    \/ RunReturns
    \/ KeyboardInterrupt
    \/ HandlerReturns
    \/ InterruptHandler

SpecSession == InitSession /\ [][NextSession]_vars

\* a session whose window stays open: the animation's timer keeps calling update
\* while time passes, so that a call whose elapsed time is past the duration
\* cannot stay possible for ever without happening
TickPastDuration ==
    \E t \in {r \in Readings : r.elapsed > Duration} :
        CacheUpdateAt(t) \/ TimingUpdateAt(t) \/ PowerUpdateAt(t)

NextTicking ==
    \/ Run
    \/ CacheUpdate
    \/ TimingUpdate
    \/ PowerUpdate

SpecTicking ==
    InitSession /\ [][NextTicking]_vars /\ WF_vars(Run) /\ WF_vars(TickPastDuration)

\* the cache simulator and attacker, called directly or by the cache session
InitCache == InitCacheUnit \/ (InitSession /\ app = "cache_session")

NextCache ==
    \/ NextCacheUnit
    \/ Run
    \/ CacheUpdate
    \/ CloseWindow
    \/ ShowReturns
    \/ RunReturns
    \/ KeyboardInterrupt
    \/ HandlerReturns
    \/ InterruptHandler

SpecCache == InitCache /\ [][NextCache]_vars

(***************************************************************************)
(* Claims about the sessions.                                              *)
(***************************************************************************)

\* the 'unknown' sentinel with confidence 0.0
Unknown == [guess |-> -1, confidence |-> <<0, 1>>]

\* C4: recover_key on a sample set with no fast sample (empty, or every timing >=
\* threshold) returns the 'unknown' sentinel -1 with confidence 0.0 instead of
\* raising, on given arrays, on a batch just simulated and on every tick of the
\* cache session.
C4_NoFastSampleIsUnknown ==
    /\ (app = "cache_unit" /\ call.op = "recover_key" /\ ret # << >>
            /\ NumFast(call.timings, Threshold) = 0) =>
          ret[1] = Unknown
    /\ (app = "cache_unit" /\ estimate # << >>
            /\ NumFast(ret[1].timings, Threshold) = 0) =>
          estimate[1] = Unknown
    /\ (app = "cache_session" /\ estimate # << >>
            /\ NumFast(Concatenate(all_timings), Threshold) = 0) =>
          estimate[1] = Unknown

\* the cache session two ticks in, no sample of its history fast yet
C4_Witness ==
    /\ app = "cache_session"
    /\ Len(all_timings) >= 2
    /\ NumFast(Concatenate(all_timings), Threshold) = 0
    /\ estimate = <<Unknown>>
    /\ title[1].status = "WORKING..."

\* view is the last min(W, Len(history)) elements of history, in order
IsWindow(view, history, W) ==
    \A h \in {history} :
        /\ Len(view) = Min(W, Len(h))
        /\ \A i \in 1..Len(view) : view[i] = h[Len(h) - Len(view) + i]

\* C9: after any sequence of ticks the display view of a session is the last
\* min(W, len(history)) elements of the history in insertion order, W = 100 for the
\* cache and power traces and 200 for the power correlation view.
C9_ViewIsLastWindow ==
    /\ app = "cache_session" =>
          IsWindow(line_plot.ydata, Concatenate(all_timings), CacheWindow)
    /\ app = "power_session" =>
          /\ IsWindow(line_power.ydata, all_power, PowerWindow)
          /\ IsWindow(scat_corr.offsets, Columns(all_weights, all_power), CorrWindow)
          /\ IsWindow(scat_corr.array, all_weights, CorrWindow)

\* the power session with more than 200 samples: both views are full and have
\* dropped the oldest samples
C9_Witness ==
    /\ app = "power_session"
    /\ Len(all_power) > CorrWindow
    /\ Len(line_power.ydata) = PowerWindow
    /\ Len(scat_corr.offsets) = CorrWindow
    /\ line_power.ydata[PowerWindow] = all_power[Len(all_power)]
    /\ scat_corr.offsets[1] = <<all_weights[Len(all_power) - CorrWindow + 1],
                                all_power[Len(all_power) - CorrWindow + 1]>>

C11_ExportedExactlyOnce ==
    app \in Sessions =>
        /\ save_calls <= 1
        /\ pc \in {"done", "exit"} => save_calls = 1

\* the elapsed time the update call of this step computed
Elapsed == clock' - start_time'[1]

\* C12: a tick whose elapsed time is strictly greater than the duration generates
\* no batch and leaves the session stopped, every tick with elapsed <= duration
\* generates exactly one batch, and a session whose ticks keep arriving while time
\* passes is eventually stopped for good.
C12_SelfStopsOnExpiry ==
    /\ [][ticks' = ticks + 1 =>
            IF Elapsed > Duration
            THEN ~is_running' /\ UNCHANGED dataVars
            ELSE Batches' = Batches + 1 /\ is_running' = is_running]_vars
    /\ <>[](~is_running)

\* a session stopped by its first tick past the duration, after a tick at exactly
\* elapsed = duration that still generated a batch
C12_Witness ==
    /\ app \in Sessions
    /\ ~is_running
    /\ Batches >= 2
    /\ title[1].elapsed = Duration
    /\ ticks = Batches + 1
    /\ clock - start_time[1] > Duration

(***************************************************************************)
(* Claims about the measurements of the cache and timing simulators.       *)
(***************************************************************************)

\* the cache simulators and the timing simulator, called directly
InitMeasure == InitCacheUnit \/ InitTimingUnit

NextMeasure == NextCacheUnit \/ NextTimingUnit

SpecMeasure == InitMeasure /\ [][NextMeasure]_vars

\* value is raw unless raw is negative, and then it is 0
IsClamped(value, raw) == value >= 0 /\ value = (IF raw < 0 THEN 0 ELSE raw)

\* C13: every measurement of the cache simulators and of vulnerable_compare is
\* >= 0 whatever the noise drawn: base + noise is returned as it is unless it is
\* negative, and then 0 is returned.
C13_MeasurementsClampedAtZero ==
    ret # << >> =>
        /\ (app = "cache_unit" /\ call.op = "simulate_batch") =>
             \A i \in 1..call.num_samples :
                IsClamped(ret[1].timings[i],
                          NoiseFree(call.plaintexts[i], secret_key, monitored_index)
                              + call.noise[i])
        /\ (app = "cache_unit" /\ call.op = "simulate_attack") =>
             \A i \in 1..call.num_samples :
                IsClamped(ret[1].traces[i][1],
                          NoiseFree(call.plaintexts[i], secret_key, monitored_index)
                              + call.noise[i])
        /\ (app = "cache_unit" /\ call.op = "calculate_timing") =>
             IsClamped(ret[1], (IF call.sbox_index = monitored_index
                                THEN HitCycles ELSE MissCycles) + call.noise)
        /\ (app = "timing_unit" /\ call.op = "vulnerable_compare") =>
             IsClamped(ret[1], BaseTime
                                 + (CharDelay
                                      * ChargedPositions(secret_pwd, call.user_input))
                                 + call.noise)
        /\ (app = "timing_unit" /\ call.op = "generate_batch") =>
             \A k \in 1..call.batch_size : ret[1].timings[k] >= 0

\* a batch holding a miss whose noise would have taken it below zero, returned
\* as 0, next to a measurement left as it was
C13_Witness ==
    /\ app = "cache_unit"
    /\ call.op = "simulate_batch"
    /\ ret # << >>
    /\ \E i \in 1..call.num_samples :
        /\ MissCycles + call.noise[i] < 0
        /\ ret[1].timings[i] = 0
    /\ \E i \in 1..call.num_samples :
        /\ call.noise[i] # 0
        /\ ret[1].timings[i] = MissCycles + call.noise[i]

\* C14: a simulator or session configured with a negative noise standard
\* deviation, a batch size <= 0 or an empty secret is rejected when it is created,
\* so no call on it ever returns a batch or a measurement.
C14_InvalidConfigurationRejected ==
    (app \in {"cache_unit", "timing_unit"} /\ ret # << >>) =>
        /\ app = "timing_unit" => (secret_pwd # << >> /\ jitter_std >= 0)
        /\ app = "cache_unit" => noise_std >= 0
        /\ call.op = "generate_batch" => call.batch_size > 0
        /\ call.op \in {"simulate_batch", "simulate_attack"} => call.num_samples > 0

\* the words a call of the power harness evaluated, each paired with the word it
\* was evaluated against, and the powers it produced for them
Evaluated(c, stored) ==
    CASE c.op = "calculate_power" -> <<<<c.current_value, stored>>>>
      [] c.op = "calculate_power_explicit" -> <<<<c.current_value, c.previous>>>>
      [] c.op = "simulate_sequence" ->
            [i \in 1..Len(c.data_sequence) |->
                <<c.data_sequence[i],
                  IF i > 1 THEN c.data_sequence[i - 1]
                  ELSE IF c.reset THEN 0 ELSE stored>>]
      [] OTHER -> << >>

Produced(c, r) ==
    CASE c.op \in {"calculate_power", "calculate_power_explicit"} -> r
      [] c.op = "simulate_sequence" -> r[1]
      [] OTHER -> << >>

AllOnes == ShiftLeft1(BitWidth) - 1

InitPowerPairs ==
    /\ NoAegis
    /\ app = "power_pairs"
    /\ \E a \in Byte, b \in Byte, op \in {"hamming", "order"} :
            call = [op |-> op, a |-> a, b |-> b]
    /\ ret = << >>
    /\ ncalls = 0
    /\ NoCache
    /\ NoTiming
    /\ NoPower
    /\ NoSession

\* hamming_weight and hamming_distance of both classes
UnitHamming ==
    /\ app = "power_pairs"
    /\ call.op = "hamming"
    /\ ret = << >>
    /\ ret' = <<[weight |-> HammingWeight(call.a),
                 weight_xor |-> HammingWeight(Xor(call.a, call.b)),
                 distance |-> HammingDistance(call.a, call.b),
                 distance_swapped |-> HammingDistance(call.b, call.a),
                 distance_self |-> HammingDistance(call.a, call.a),
                 distance_complement |->
                    HammingDistance(call.a, Xor(call.a, AllOnes)),
                 live_distance |-> LiveHammingDistance(call.a, call.b),
                 live_distance_swapped |-> LiveHammingDistance(call.b, call.a),
                 live_distance_self |-> LiveHammingDistance(call.a, call.a),
                 live_distance_complement |->
                    LiveHammingDistance(call.a, Xor(call.a, AllOnes))]>>
    /\ ncalls' = ncalls + 1
    /\ UNCHANGED <<aegisVars, app, call, cacheVars, timingVars, powerVars, sessionVars>>

\* simulate_sequence([a, b]) and simulate_sequence([b, b]); calculate_power(a),
\* calculate_power(b) and calculate_power(b), calculate_power(b) on new simulators
\* of sims/hamming_power_sim.py
UnitOrder ==
    /\ app = "power_pairs"
    /\ call.op = "order"
    /\ ret = << >>
    /\ \E live_a \in {LiveCalculatePower(0, call.a)},
          live_b \in {LiveCalculatePower(0, call.b)} :
        ret' = <<[ab |-> SimulateSequence(0, <<call.a, call.b>>, TRUE).power_trace,
                  bb |-> SimulateSequence(0, <<call.b, call.b>>, TRUE).power_trace,
                  again |-> SimulateSequence(0, <<call.a, call.b>>, TRUE).power_trace,
                  live_ab |-> <<live_a.power,
                                LiveCalculatePower(live_a.previous_value, call.b).power>>,
                  live_bb |-> <<live_b.power,
                                LiveCalculatePower(live_b.previous_value, call.b).power>>]>>
    /\ previous_value' = call.b
    /\ last_arg' = call.b
    /\ since_reset' = call.b
    /\ ncalls' = ncalls + 1
    /\ UNCHANGED <<aegisVars, app, call, cacheVars, timingVars, sessionVars>>

NextPowerPairs ==
    \/ UnitHamming
    \/ UnitOrder

SpecPowerPairs == InitPowerPairs /\ [][NextPowerPairs]_vars

\* C16: calculate_power is deterministic and order-dependent: for any two distinct
\* words a # b the power computed for b immediately after a is strictly greater
\* than the power computed for b immediately after b, as [0x00, 0xFF] against
\* [0xFF, 0xFF]; the same calls give the same powers again.
C16_OrderDependent ==
    (app = "power_pairs" /\ call.op = "order" /\ ret # << >>) =>
        /\ ret[1].again = ret[1].ab
        /\ call.a # call.b =>
             /\ ret[1].ab[2] > ret[1].bb[2]
             /\ ret[1].live_ab[2] > ret[1].live_bb[2]
        /\ call.a = call.b =>
             /\ ret[1].ab[2] = ret[1].bb[2]
             /\ ret[1].live_ab[2] = ret[1].live_bb[2]

\* [0x00, 0xFF] against [0xFF, 0xFF]: 8 transitions more
C16_Witness ==
    /\ app = "power_pairs"
    /\ call = [op |-> "order", a |-> 0, b |-> 255]
    /\ ret # << >>
    /\ ret[1].ab[2] = ret[1].bb[2] + (8 * TransitionPower)
    /\ ret[1].live_ab[2] = ret[1].live_bb[2] + (8 * TransitionPower)

\* C17: for all 8-bit a and b, hamming_weight(v) is the number of set bits of v and
\* hamming_distance(a, b) = hamming_weight(a XOR b), so that hamming_weight(0xFF)
\* = 8, hamming_weight(0) = 0, hamming_distance(a, a) = 0, hamming_distance is
\* symmetric, and the distance of a value and its 8-bit complement is 8.
C17_HammingFunctions ==
    (app = "power_pairs" /\ call.op = "hamming" /\ ret # << >>) =>
        \A r \in {ret[1]} :
            /\ r.weight = PopCount(call.a)
            /\ r.distance = r.weight_xor
            /\ r.distance = DifferingBits(call.a, call.b)
            /\ r.live_distance = r.distance
            /\ call.a = 255 => r.weight = 8
            /\ call.a = 0 => r.weight = 0
            /\ r.distance_self = 0 /\ r.live_distance_self = 0
            /\ r.distance_swapped = r.distance
            /\ r.live_distance_swapped = r.live_distance
            /\ r.distance_complement = 8 /\ r.live_distance_complement = 8

\* 0xAA against 0x55
C17_Witness ==
    /\ app = "power_pairs"
    /\ call = [op |-> "hamming", a |-> 170, b |-> 85]
    /\ ret # << >>
    /\ ret[1].distance = 8
    /\ ret[1].weight = 4

\* p is a prefix of s
IsPrefix(p, s) == Len(p) <= Len(s) /\ \A i \in 1..Len(p) : p[i] = s[i]

\* C18: when secret and guess differ in length, vulnerable_compare examines only
\* the positions below min(len(secret), len(guess)); a guess that is a proper
\* prefix of the secret, or the secret a proper prefix of the guess, is charged
\* exactly min(len) character delays, and an empty guess or secret yields
\* base_time when there is no noise.
C18_ComparesOverShorterLength ==
    (app = "timing_unit" /\ call.op = "vulnerable_compare" /\ jitter_std = 0
        /\ ret # << >>) =>
        \A n \in {Min(Len(secret_pwd), Len(call.user_input))} :
            /\ ret[1] <= BaseTime + (CharDelay * n)
            /\ ret[1] = VulnerableCompare(SubSeq(secret_pwd, 1, n),
                                          SubSeq(call.user_input, 1, n), 0)
            /\ (Len(secret_pwd) # Len(call.user_input)
                  /\ (IsPrefix(call.user_input, secret_pwd)
                        \/ IsPrefix(secret_pwd, call.user_input))) =>
                 ret[1] = BaseTime + (CharDelay * n)
            /\ n = 0 => ret[1] = BaseTime

\* 'admi' against 'admin': four delays
C18_Witness ==
    /\ app = "timing_unit"
    /\ call.op = "vulnerable_compare"
    /\ jitter_std = 0
    /\ secret_pwd = Admin
    /\ call.user_input = SubSeq(Admin, 1, 4)
    /\ ret = <<BaseTime + (4 * CharDelay)>>

(***************************************************************************)
(* The sweep harness: for every secret and a monitored index of each bit   *)
(* pattern, a noise-free batch of 256 samples whose draws are the 256      *)
(* bytes, each once.                                                       *)
(***************************************************************************)
SweptIndices == {0, 1, 2, 4, 8, 16, 32, 64, 94, 128, 255}

EveryByte == RandInt([start |-> 0, stride |-> 1, z |-> 0, tails |-> FALSE], 0, 256, 256)

InitCacheSweep ==
    /\ NoAegis
    /\ app = "cache_sweep"
    /\ secret_key \in Byte
    /\ monitored_index \in SweptIndices
    /\ noise_std = 0
    /\ \E op \in {"simulate_batch", "simulate_attack"} :
            call = [op |-> op, num_samples |-> 256, plaintexts |-> EveryByte,
                    noise |-> [i \in 1..256 |-> 0]]
    /\ ret = << >>
    /\ ncalls = 0
    /\ estimate = << >>
    /\ NoTiming
    /\ NoPower
    /\ NoSession

NextCacheSweep ==
    \/ UnitSimulateBatch
    \/ UnitSimulateAttack

SpecCacheSweep == InitCacheSweep /\ [][NextCacheSweep]_vars

\* the measurements of the call that has returned, one per sample
Measured == IF call.op = "simulate_batch" THEN ret[1].timings
            ELSE [i \in 1..Len(ret[1].traces) |-> ret[1].traces[i][1]]

\* C19: for every secret and monitored_index in 0..255 exactly one of the 256
\* input bytes p has (p XOR secret) = monitored_index, namely p = secret XOR
\* monitored_index: without noise that input is a hit and the other 255 are misses.
C19_ExactlyOneInputHits ==
    (app = "cache_sweep" /\ ret # << >>) =>
        \A timings \in {Measured} :
            \A hits \in {{i \in 1..256 : timings[i] = HitCycles}} :
                /\ Cardinality(hits) = 1
                /\ \A i \in hits :
                     /\ call.plaintexts[i] = Xor(secret_key, monitored_index)
                     /\ \A b \in 0..7 :
                          Bit(call.plaintexts[i], b) # Bit(secret_key, b)
                             <=> Bit(monitored_index, b) = 1
                /\ \A i \in (1..256) \ hits : timings[i] = MissCycles

\* secret 0x5A watched at index 94: the one hit is input 4
C19_Witness ==
    /\ app = "cache_sweep"
    /\ secret_key = 90
    /\ monitored_index = 94
    /\ call.op = "simulate_batch"
    /\ ret # << >>
    /\ ret[1].timings[5] = HitCycles
    /\ call.plaintexts[5] = 4

\* r is what the vote over the fast samples of a history gives: the 'unknown'
\* sentinel when no sample is fast, the majority vote otherwise
IsEstimateOf(r, plaintexts, timings, monitored, threshold) ==
    IF NumFast(timings, threshold) = 0
    THEN r = Unknown
    ELSE IsMajorityVote(r, plaintexts, timings, monitored, threshold)

\* the estimate in every state is the vote over the history of that state, and a
\* second call on the same arrays repeats the result of the first
EstimateOfHistory ==
    /\ (app = "cache_unit" /\ call.op = "recover_key" /\ Len(ret) = 2) =>
          ret[2] = ret[1]
    /\ (app = "cache_session" /\ estimate # << >>) =>
          IsEstimateOf(estimate[1], Concatenate(all_plaintexts),
                       Concatenate(all_timings), monitored_index, Threshold)

\* a step leaves the arrays recover_key was called on as they were, and changes
\* the history of the session only by appending the batch of the tick
HistoryKept ==
    /\ (app = "cache_unit" /\ call.op = "recover_key") => call' = call
    /\ app = "cache_session" =>
          \/ /\ all_plaintexts' = all_plaintexts
             /\ all_timings' = all_timings
          \/ /\ Len(all_plaintexts') = Len(all_plaintexts) + 1
             /\ Len(all_timings') = Len(all_timings) + 1
             /\ SubSeq(all_plaintexts', 1, Len(all_plaintexts)) = all_plaintexts
             /\ SubSeq(all_timings', 1, Len(all_timings)) = all_timings

\* C20: the recovery estimate is a stateless function of the history: a second
\* call of recover_key on the same arrays returns the same (guess, confidence),
\* the estimate after each tick is the vote over the full accumulated history
\* whatever the estimates before it were, and recover_key leaves the arrays it
\* reads unchanged.
C20_EstimateIsFunctionOfHistory == []EstimateOfHistory /\ [][HistoryKept]_vars

\* the cache session two ticks in, its estimate a guess voted by fast samples
\* of which the first tick had some already
C20_Witness ==
    /\ app = "cache_session"
    /\ Len(all_timings) >= 2
    /\ NumFast(all_timings[1], Threshold) > 0
    /\ NumFast(Concatenate(all_timings), Threshold) > NumFast(all_timings[1], Threshold)
    /\ estimate # << >>
    /\ estimate[1].guess \in Byte
    /\ estimate[1].confidence[2] = NumFast(Concatenate(all_timings), Threshold)

\* the parallel arrays of a session's history are equally long
ParallelArrays ==
    /\ app = "cache_session" =>
          /\ Len(all_plaintexts) = Len(all_timings)
          /\ \A i \in 1..Len(all_plaintexts) :
                Len(all_plaintexts[i]) = Len(all_timings[i])
    /\ app = "timing_session" => Len(all_timings) = Len(all_counts)
    /\ app = "power_session" => Len(all_power) = Len(all_weights)

\* after is before with n more elements at its end
Extended(before, after, n) ==
    /\ Len(after) = Len(before) + n
    /\ SubSeq(after, 1, Len(before)) = before

\* the step appends one batch to the history of the session
AppendsOneBatch ==
    /\ app = "cache_session" =>
          /\ Extended(all_plaintexts, all_plaintexts', 1)
          /\ Extended(all_timings, all_timings', 1)
          /\ Len(all_plaintexts'[Len(all_plaintexts')]) = CacheBatchSize
          /\ Len(all_timings'[Len(all_timings')]) = CacheBatchSize
    /\ app = "timing_session" =>
          /\ Extended(all_timings, all_timings', TimingBatchSize)
          /\ Extended(all_counts, all_counts', TimingBatchSize)
    /\ app = "power_session" =>
          /\ Extended(all_power, all_power', PowerBatchSize)
          /\ Extended(all_weights, all_weights', PowerBatchSize)

\* C22: the session history is append-only: every tick that is not past the
\* duration appends exactly one batch (50 samples cache, 5 power, 10 timing) at the
\* end of the history and leaves the samples stored before it unchanged and in
\* order, and the parallel arrays (plaintexts/timings, power/weights,
\* timings/counts) are equally long in every state.
C22_HistoryAppendOnly ==
    /\ []ParallelArrays
    /\ [][(app \in Sessions /\ ticks' = ticks + 1 /\ Elapsed <= Duration)
             => AppendsOneBatch]_vars

\* the timing session after its second batch of ten
C22_Witness ==
    /\ app = "timing_session"
    /\ ticks = 2
    /\ Len(all_timings) = 2 * TimingBatchSize
    /\ Len(all_counts) = 2 * TimingBatchSize

(***************************************************************************)
(* The cache session on a simulator constructed with noise_std = 0.        *)
(***************************************************************************)
InitQuiet ==
    /\ NoAegis
    /\ app = "cache_session"
    /\ NoUnit
    /\ secret_key = LiveSecretKey
    /\ monitored_index = LiveMonitoredIndex
    /\ noise_std = 0
    /\ estimate = << >>
    /\ NoTiming
    /\ NoPower
    /\ pc = "constructed"
    /\ clock = 5
    /\ start_time = << >>
    /\ is_running = TRUE
    /\ ani = None
    /\ fig_open = TRUE
    /\ ticks = 0
    /\ save_calls = 0
    /\ files = << >>
    /\ \E seed \in Seeds : rng = [seed |-> seed, used |-> 0]
    /\ NoData
    /\ NoViews

NextQuiet == Run \/ CacheUpdate

SpecQuiet == InitQuiet /\ [][NextQuiet]_vars

\* e is the true secret with confidence 1.0
IsSecretForSure(e) ==
    /\ e # << >>
    /\ e[1].guess = secret_key
    /\ e[1].confidence[1] = e[1].confidence[2]
    /\ e[1].confidence[2] > 0

\* some input of the history is secret XOR monitored_index
HistoryHoldsHit ==
    \E i \in 1..Len(all_plaintexts) :
        \E j \in 1..Len(all_plaintexts[i]) :
            all_plaintexts[i][j] = Xor(secret_key, monitored_index)

\* the estimate is (-1, 0.0) while no input of the history hits, (secret, 1.0) after
NoiseFreeEstimate ==
    (app = "cache_session" /\ noise_std = 0 /\ estimate # << >>) =>
        /\ HitCycles < Threshold /\ Threshold <= MissCycles
        /\ IF HistoryHoldsHit THEN IsSecretForSure(estimate) ELSE estimate = <<Unknown>>

\* C23: with noise_std = 0 and hit_cycles < threshold <= miss_cycles, at every tick
\* the estimate of the cache session is (-1, 0.0) when the history holds no input
\* equal to secret XOR monitored_index and (secret, 1.0) otherwise, and once it is
\* (secret, 1.0) it stays so on all later ticks.
C23_NoiseFreeEstimateConverges ==
    /\ []NoiseFreeEstimate
    /\ [][(app = "cache_session" /\ noise_std = 0 /\ IsSecretForSure(estimate))
             => IsSecretForSure(estimate')]_vars

\* three ticks in: the first batch held no hit and left the estimate unknown, the
\* second brought one, and the third tick kept the estimate at the secret
C23_Witness ==
    /\ app = "cache_session" /\ noise_std = 0
    /\ Len(all_plaintexts) = 3
    /\ \A j \in 1..CacheBatchSize :
          all_plaintexts[1][j] # Xor(secret_key, monitored_index)
    /\ \E j \in 1..CacheBatchSize :
          all_plaintexts[2][j] = Xor(secret_key, monitored_index)
    /\ IsSecretForSure(estimate)
    /\ estimate[1].confidence[2] < 3 * CacheBatchSize

\* the trace of one pass of calculate_power over data, previous_value = start
\* before it
OnePass(data, start) ==
    [i \in 1..Len(data) |->
        PowerFormula(data[i], IF i = 1 THEN start ELSE data[i - 1])]

\* the first n words the session's random stream serves
DrawnWords(n) == RandInt(rng.seed, 0, 2 ^ BitWidth, n)

\* the words the session's random stream serves from draw number lo to hi
DrawnFrom(lo, hi) == RandInt(rng.seed, lo - 1, 2 ^ BitWidth, hi - lo + 1)

\* the simulator remembers the last word drawn, 0 before the first
RemembersLastWord ==
    app = "power_session" =>
        /\ rng.used = Len(all_power)
        /\ previous_value = (IF all_power = << >> THEN 0
                             ELSE DrawnFrom(Len(all_power), Len(all_power))[1])

\* the trace the session has when run() returns is one pass over all its data
SavedTraceIsOnePass ==
    (app = "power_session" /\ pc = "done") =>
        all_power = OnePass(DrawnWords(Len(all_power)), 0)

\* C24: generate_batch does not reset previous_value between batches: the first
\* sample of a batch is charged the transition from the last word of the batch
\* before it, so each batch extends the trace of the power session by what one
\* pass of calculate_power gives when it goes on from the last word drawn, and the
\* trace of all batches is the trace of one pass over all the data drawn, starting
\* from the simulator's initial previous_value.
C24_BatchesChainAcrossCalls ==
    /\ [](RemembersLastWord /\ SavedTraceIsOnePass)
    /\ [][(app = "power_session" /\ all_power' # all_power) =>
            all_power' = all_power
                \o OnePass(DrawnFrom(Len(all_power) + 1, Len(all_power')),
                           previous_value)]_vars

\* the power session two batches in, the first sample of the second batch charged
\* for the bits in which it differs from the last word of the first batch
C24_Witness ==
    /\ app = "power_session"
    /\ Len(all_power) = 2 * PowerBatchSize
    /\ \A data \in {DrawnWords(Len(all_power))} :
          /\ all_power[PowerBatchSize + 1]
                = PowerFormula(data[PowerBatchSize + 1], data[PowerBatchSize])
          /\ all_power[PowerBatchSize + 1] # PowerFormula(data[PowerBatchSize + 1], 0)

\* C25: in the root HammingPowerSimulator, calculate_power(current, previous_value=p)
\* computes the transition term against p instead of the stored value and still
\* overwrites the stored previous_value with current; after any call, with or
\* without the explicit argument, the stored previous_value is the last current
\* value passed.
C25_ExplicitPreviousStillStored ==
    [][(app = "power_root" /\ ncalls' = ncalls + 1
            /\ call'.op \in {"calculate_power", "calculate_power_explicit"}) =>
         /\ ret' = <<PowerFormula(call'.current_value,
                                  IF call'.op = "calculate_power_explicit"
                                  THEN call'.previous ELSE previous_value)>>
         /\ previous_value' = call'.current_value]_vars

\* a third call, calculate_power(0, previous_value=255): charged all eight
\* transitions, and the stored value 0 afterwards
C25_Witness ==
    /\ app = "power_root"
    /\ ncalls = 3
    /\ call.op = "calculate_power_explicit"
    /\ call.current_value = 0
    /\ call.previous = 255
    /\ ret = <<BasePower + (BitWidth * TransitionPower)>>
    /\ previous_value = 0

(***************************************************************************)
(* src/aegis/main.py: main(), the two daemon threads it starts and the     *)
(* lines it reads from standard input.  A line of text is the tuple of its *)
(* characters, a line of output the tuple of its words.                    *)
(***************************************************************************)
MaxInputs == 2
MaxSimBatches == 2

Ports == <<8000, 8001, 8002, 9000, 9001>>

\* what the user may type before Enter
Typed ==
    {<<"e", "x", "i", "t">>,
     <<" ", "E", "x", "I", "T", " ">>,
     <<"e", "x", "i", "t", "s">>,
     <<"e", "x", " ", "i", "t">>,
     <<"r", "u", "n">>,
     << >>}

Whitespace == {" ", "\t"}

RECURSIVE LStrip(_)
LStrip(line) ==
    IF line # << >> /\ Head(line) \in Whitespace THEN LStrip(Tail(line)) ELSE line

RECURSIVE RStrip(_)
RStrip(line) ==
    IF line # << >> /\ line[Len(line)] \in Whitespace
    THEN RStrip(SubSeq(line, 1, Len(line) - 1))
    ELSE line

\* str.strip()
Strip(line) == RStrip(LStrip(line))

LowerCase == [c \in {"E", "X", "I", "T", "R", "U", "N", "S"} |->
                 CASE c = "E" -> "e" [] c = "X" -> "x" [] c = "I" -> "i"
                   [] c = "T" -> "t" [] c = "R" -> "r" [] c = "U" -> "u"
                   [] c = "N" -> "n" [] c = "S" -> "s"]

\* str.lower()
Lower(line) ==
    [i \in 1..Len(line) |->
        IF line[i] \in DOMAIN LowerCase THEN LowerCase[line[i]] ELSE line[i]]

\* input().strip().lower() == "exit"
IsExit(line) == Lower(Strip(line)) = <<"e", "x", "i", "t">>

Rule == <<"============================================================">>
Banner == <<Rule, <<"AEGIS", "-", "Live", "Side-Channel", "Power", "Simulation">>, Rule>>
SimStarted == <<"[OK]", "Live", "power", "simulation", "started">>
ServerStarted == <<"[OK]", "Frontend", "server", "started">>
Prompt ==
    << << >>,
       <<"[INFO]", "Type", "'exit'", "and", "press", "Enter", "to", "stop", "the",
         "application">>,
       << >> >>
Stopping == << << >>, <<"Stopping", "simulation", "and", "server...">> >>
Interrupted ==
    << << >>, <<"Keyboard", "interrupt", "received.", "Shutting", "down...">> >>
ShutDown == <<"[OK]", "AEGIS", "shut", "down", "cleanly.">>
FrontendRunning(port) ==
    << << >>,
       <<"[OK]", "Frontend", "running", "at", "http://localhost:" \o ToString(port)>> >>
PortsBusy ==
    <<"[ERROR]", "Could", "not", "start", "frontend", "server", "(ports", "busy)">>

InitAegis ==
    /\ app = "aegis"
    /\ NoUnit
    /\ NoCache
    /\ NoTiming
    /\ NoPower
    /\ NoSession
    /\ NoData
    /\ NoViews
    /\ main_pc = "start"
    /\ stop_event = << >>
    /\ sim_thread = [state |-> None, batches |-> 0]
    /\ server_thread = [state |-> None, attempt |-> 0]
    /\ stdout = << >>
    /\ lines_read = 0

notAegis == <<app, unitVars, cacheVars, timingVars, powerVars, sessionVars>>

\* main(): the banner
MainBanner ==
    /\ app = "aegis"
    /\ main_pc = "start"
    /\ stdout' = stdout \o Banner
    /\ main_pc' = "start_sim"
    /\ UNCHANGED <<notAegis, stop_event, sim_thread, server_thread, lines_read>>

\* main(): stop_event = Event(), and the simulation thread started on it
MainStartSim ==
    /\ app = "aegis"
    /\ main_pc = "start_sim"
    /\ stop_event' = <<FALSE>>
    /\ sim_thread' = [state |-> "running", batches |-> 0]
    /\ stdout' = Append(stdout, SimStarted)
    /\ main_pc' = "start_server"
    /\ UNCHANGED <<notAegis, server_thread, lines_read>>

\* main(): the frontend thread started
MainStartServer ==
    /\ app = "aegis"
    /\ main_pc = "start_server"
    /\ server_thread' = [state |-> "trying", attempt |-> 1]
    /\ stdout' = Append(stdout, ServerStarted)
    /\ main_pc' = "prompt"
    /\ UNCHANGED <<notAegis, stop_event, sim_thread, lines_read>>

\* main(): the prompt, and into the try block and its loop
MainPrompt ==
    /\ app = "aegis"
    /\ main_pc = "prompt"
    /\ stdout' = stdout \o Prompt
    /\ main_pc' = "input"
    /\ UNCHANGED <<notAegis, stop_event, sim_thread, server_thread, lines_read>>

\* main(): one round of the loop, input() returning what the user typed
MainInput ==
    /\ app = "aegis"
    /\ main_pc = "input"
    /\ lines_read < MaxInputs
    /\ lines_read' = lines_read + 1
    /\ \E user_input \in Typed :
         IF IsExit(user_input)
         THEN /\ stdout' = stdout \o Stopping
              /\ main_pc' = "stopping"
         ELSE UNCHANGED <<stdout, main_pc>>
    /\ UNCHANGED <<notAegis, stop_event, sim_thread, server_thread>>

\* main(): stop_event.set() and break in the 'exit' branch
MainExit ==
    /\ app = "aegis"
    /\ main_pc = "stopping"
    /\ stop_event' = <<TRUE>>
    /\ main_pc' = "final"
    /\ UNCHANGED <<notAegis, sim_thread, server_thread, stdout, lines_read>>

\* main(): input() raising EOFError at the end of standard input, which no except
\* clause of main catches
MainEndOfInput ==
    /\ app = "aegis"
    /\ main_pc = "input"
    /\ main_pc' = "raised"
    /\ UNCHANGED <<notAegis, stop_event, sim_thread, server_thread, stdout, lines_read>>

\* a KeyboardInterrupt raised in the main thread: caught inside the try block,
\* leaving main anywhere else
MainKeyboardInterrupt ==
    /\ app = "aegis"
    /\ main_pc \notin {"returned", "raised"}
    /\ main_pc' = IF main_pc \in {"input", "stopping"} THEN "handler" ELSE "raised"
    /\ UNCHANGED <<notAegis, stop_event, sim_thread, server_thread, stdout, lines_read>>

\* the except clause printing its message and leaving the event as it is
MainHandlerLeavesEvent ==
    /\ app = "aegis"
    /\ main_pc = "handler"
    /\ stdout' = stdout \o Interrupted
    /\ main_pc' = "final"
    /\ UNCHANGED <<notAegis, stop_event, sim_thread, server_thread, lines_read>>

\* main(): the except KeyboardInterrupt clause
MainHandler ==
    /\ app = "aegis"
    /\ main_pc = "handler"
    /\ stdout' = stdout \o Interrupted
    /\ stop_event' = <<TRUE>>
    /\ main_pc' = "final"
    /\ UNCHANGED <<notAegis, sim_thread, server_thread, lines_read>>

\* main(): the last line, and the return
MainReturns ==
    /\ app = "aegis"
    /\ main_pc = "final"
    /\ stdout' = Append(stdout, ShutDown)
    /\ main_pc' = "returned"
    /\ UNCHANGED <<notAegis, stop_event, sim_thread, server_thread, lines_read>>

\* run_continuous_simulation(stop_event): one more batch while the event is clear
SimBatch ==
    /\ app = "aegis"
    /\ sim_thread.state = "running"
    /\ stop_event = <<FALSE>>
    /\ sim_thread.batches < MaxSimBatches
    /\ sim_thread' = [sim_thread EXCEPT !.batches = @ + 1]
    /\ UNCHANGED <<notAegis, main_pc, stop_event, server_thread, stdout, lines_read>>

\* run_continuous_simulation(stop_event): the loop left once the event is set
SimStops ==
    /\ app = "aegis"
    /\ sim_thread.state = "running"
    /\ stop_event = <<TRUE>>
    /\ sim_thread' = [sim_thread EXCEPT !.state = "finished"]
    /\ UNCHANGED <<notAegis, main_pc, stop_event, server_thread, stdout, lines_read>>

\* run_frontend_server: one port attempted, busy (OSError) or bound and served
ServerAttempt ==
    /\ app = "aegis"
    /\ server_thread.state = "trying"
    /\ \E busy \in BOOLEAN :
         IF ~busy
         THEN /\ stdout' = stdout \o FrontendRunning(Ports[server_thread.attempt])
              /\ server_thread' = [server_thread EXCEPT !.state = "serving"]
         ELSE IF server_thread.attempt < Len(Ports)
         THEN /\ server_thread' = [server_thread EXCEPT !.attempt = @ + 1]
              /\ UNCHANGED stdout
         ELSE /\ stdout' = Append(stdout, PortsBusy)
              /\ server_thread' = [server_thread EXCEPT !.state = "failed"]
    /\ UNCHANGED <<notAegis, main_pc, stop_event, sim_thread, lines_read>>

NextAegis ==
    \/ MainBanner
    \/ MainStartSim
    \/ MainStartServer
    \/ MainPrompt
    \/ MainInput
    \/ MainExit
    \/ MainEndOfInput
    \/ MainKeyboardInterrupt
    \/ MainHandler
    \/ MainReturns
    \/ SimBatch
    \/ SimStops
    \/ ServerAttempt

SpecAegis == InitAegis /\ [][NextAegis]_vars

\* some line of the output holds the words of text, in a row
Contains(lines, text) ==
    \E i \in 1..Len(lines) :
        \E k \in 0..(Len(lines[i]) - Len(text)) :
            \A j \in 1..Len(text) : lines[i][k + j] = text[j]

\* C21: calling main() of the aegis entry point returns and writes a line
\* containing "Hello from aegis!" to standard output.
C21_MainSaysHello ==
    main_pc = "returned" => Contains(stdout, <<"Hello", "from", "aegis!">>)

\* C26: on every path by which main() leaves its input loop (the user types 'exit',
\* or a KeyboardInterrupt is raised while waiting for input) the stop event shared
\* with the simulation thread has been set before main() returns, and it is never
\* set while the loop is still reading input other than 'exit': it is clear while
\* main is anywhere up to and in the loop, and only the 'exit' branch and the
\* except clause set it.
C26_StopEventSetOnEveryExit ==
    /\ [](app = "aegis" =>
            /\ main_pc = "returned" => stop_event = <<TRUE>>
            /\ stop_event = <<TRUE>> => main_pc \in {"final", "returned", "raised"}
            /\ main_pc \in {"input", "stopping", "handler"} => stop_event = <<FALSE>>)
    /\ [][(app = "aegis" /\ stop_event' # stop_event /\ stop_event' = <<TRUE>>)
             => main_pc \in {"stopping", "handler"}]_vars

\* main() returned after a line other than 'exit' and then a KeyboardInterrupt in
\* input(): the event set, and the simulation thread out of its loop
C26_Witness ==
    /\ app = "aegis"
    /\ main_pc = "returned"
    /\ lines_read = 1
    /\ Contains(stdout, <<"Keyboard", "interrupt", "received.">>)
    /\ ~Contains(stdout, <<"Stopping", "simulation">>)
    /\ stop_event = <<TRUE>>
    /\ sim_thread.state = "finished"

====
